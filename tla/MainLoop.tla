------------------------------- MODULE MainLoop -------------------------------
(***************************************************************************)
(* The registry of the program's main loop (gui/main_loop.py): which       *)
(* graphics objects are on the screen, in the order they are drawn, which  *)
(* functions every frame calls, and which objects have asked to be taken   *)
(* off.  A registry is a record                                            *)
(*    [objects: a sequence, functions: a set of <<what, object>> pairs,    *)
(*     leaving: the objects whose unregister() was called].                *)
(* A function registered twice is removed by one remove_from_loop, so the  *)
(* list of functions is a set.                                             *)
(***************************************************************************)
EXTENDS Naturals, Selection

EmptyRegistry == [objects |-> <<>>, functions |-> {}, leaving |-> {}]

Registered(loop, object) == object \in ToSet(loop.objects)

InsertToLoop(loop, function) == [loop EXCEPT !.functions = @ \cup {function}]

RemoveFromLoop(loop, functions) == [loop EXCEPT !.functions = @ \ functions]

(* Puts an object on the screen with its draw and move functions and those *)
(* it asks for besides; one that is there already is left as it is.        *)
RegisterOne(loop, object, background, others) ==
  IF Registered(loop, object) THEN loop
  ELSE [loop EXCEPT !.objects = IF background THEN <<object>> \o @ ELSE Append(@, object),
                    !.functions = @ \cup {<<"draw", object>>, <<"move", object>>} \cup others]

(* The same for several objects, of which none is twice in the list.       *)
RegisterAll(loop, objects) ==
  LET new == Only(objects, {o \in ToSet(objects) : ~Registered(loop, o)})
  IN [loop EXCEPT !.objects = @ \o new, !.functions = @ \cup ({"draw", "move"} \X ToSet(new))]

Without(loop, objects) == Only(loop.objects, ToSet(loop.objects) \ objects)

(* mutant: everything that belongs to the objects leaves the loop *)
UnregisterEverything(loop, objects) ==
  [loop EXCEPT !.objects = Without(loop, objects),
               !.functions = {f \in @ : f[2] \notin objects}]

(* Only draw and move leave the loop: what an object asked for besides     *)
(* them stays.                                                             *)
UnregisterAll(loop, objects) ==
  [loop EXCEPT !.objects = Without(loop, objects),
               !.functions = @ \ ({"draw", "move"} \X objects)]

RequestToLeave(loop, objects) == [loop EXCEPT !.leaving = @ \cup objects]

(* The first thing a frame does; children[o] are those of object o.        *)
(* The requests are forgotten: nobody looks at an object off the screen.   *)
UnregisterRequesting(loop, children) ==
  LET asking == {o \in ToSet(loop.objects) : o \in loop.leaving}
  IN [UnregisterAll(loop, asking \cup UNION {children[o] : o \in asking}) EXCEPT !.leaving = {}]

MoveToFront(loop, object) == [loop EXCEPT !.objects = Append(Without(loop, {object}), object)]

=============================================================================
