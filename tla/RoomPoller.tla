----------------------------- MODULE RoomPoller -----------------------------
(***************************************************************************)
(* RoomPoller (RoomClient.ts): start launches a loop that runs its task,   *)
(* waits on a timer and runs it again; stop sets a flag and clears the     *)
(* timer the poller holds.  stop does not end a task that is in flight,    *)
(* and start does not wait for it, so a poller may come to own several     *)
(* loops.                                                                  *)
(*                                                                         *)
(* A loop is a frame: where its task stands (at) and what that code has    *)
(* captured (gen, ref).  The tasks themselves belong to RoomPeers.         *)
(***************************************************************************)
EXTENDS Naturals

CONSTANT MaxLoops  \* bound on the loops one poller may own at a time

Loop == 1 .. MaxLoops

Frame(at, gen, ref) == [at |-> at, gen |-> gen, ref |-> ref]

NoTask  == Frame("none", 0, 0)
Waiting == Frame("timer", 0, 0)

Running(p, l) == p.loop[l].at \notin {"none", "timer"}

\* A poller that was never started.
Unstarted == [on |-> FALSE, timer |-> 0, loop |-> [l \in Loop |-> NoTask]]

FreeLoop(p) ==
  CHOOSE l \in Loop : p.loop[l] = NoTask /\ \A k \in 1 .. (l - 1) : p.loop[k] # NoTask

\* Bound: a start that would exceed MaxLoops is not explored.
MayStart(p) == p.on \/ \E l \in Loop : p.loop[l] = NoTask

Stop(p) ==
  [p EXCEPT !.on = FALSE, !.timer = 0,
            !.loop = [l \in Loop |-> IF l = p.timer /\ @[l] = Waiting THEN NoTask ELSE @[l]]]

\* start, called only when the poller is stopped; f is the new task's frame.
Start(p, f) ==
  IF p.on THEN p
  ELSE [p EXCEPT !.on = TRUE, !.loop[FreeLoop(p)] = f]

\* The timer of a loop fires.
Fire(p, l, f) == [p EXCEPT !.loop[l] = IF p.on THEN f ELSE NoTask]

\* The task of a loop settles: the loop ends if the poller is stopped.
Settle(p, l) ==
  IF p.on THEN [p EXCEPT !.timer = l, !.loop[l] = Waiting]
  ELSE [p EXCEPT !.loop[l] = NoTask]

=============================================================================
