---------------------------- MODULE RemoteControl ----------------------------
(***************************************************************************)
(* What remote control of the robot promises: the robot does only what it  *)
(* has been asked to do.  The orders of one source are executed in the     *)
(* order they were asked in, none of them twice; some may get lost, and    *)
(* orders of different sources come in any order.                          *)
(***************************************************************************)
EXTENDS Integers, Sequences

CONSTANTS
  Sources,  \* who gives orders
  Orders,   \* what can be asked
  NoOrder   \* what the robot has done before any order

VARIABLES
  asked,    \* all orders each source has given
  done,     \* the numbers of the ones executed, as they were executed
  robot     \* the order executed last

vars == <<asked, done, robot>>

Init ==
  /\ asked = [s \in Sources |-> << >>]
  /\ done = [s \in Sources |-> << >>]
  /\ robot = NoOrder

\* The order is named by what it becomes part of, for TLC not to guess it.
Ask(s) ==
  /\ asked'[s] # << >>
  /\ LET order == asked'[s][Len(asked'[s])] IN
       order \in Orders /\ asked' = [asked EXCEPT ![s] = Append(@, order)]
  /\ UNCHANGED <<done, robot>>

Execute(s) ==
  /\ \E n \in 1 .. Len(asked[s]) :
       /\ \A i \in 1 .. Len(done[s]) : done[s][i] < n
       /\ done' = [done EXCEPT ![s] = Append(@, n)]
       /\ robot' = asked[s][n]
  /\ UNCHANGED asked

Next == \E s \in Sources : Ask(s) \/ Execute(s)

Spec == Init /\ [][Next]_vars

=============================================================================
