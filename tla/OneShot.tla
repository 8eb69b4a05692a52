------------------------------ MODULE OneShot ------------------------------
(***************************************************************************)
(* What a command promises its users, without saying how: a command is     *)
(* launched at most once, its process ends at most once, the end is        *)
(* reported after it happened, and at most one caller is told of it.       *)
(* Module Command is shown to implement this.                              *)
(***************************************************************************)
CONSTANT Cmds

VARIABLES life,  \* life[c]: where the only process of command c stands
          told   \* the commands whose end some caller has been told of

lifeVars == <<life, told>>

Stages == {"new", "live", "dead", "reported"}

Init == /\ life = [c \in Cmds |-> "new"]
        /\ told = {}

Advance(c, from, to) == /\ life[c] = from
                        /\ life' = [life EXCEPT ![c] = to]
                        /\ UNCHANGED told

Launch(c) == Advance(c, "new", "live")

Die(c) == Advance(c, "live", "dead")

Report(c) == Advance(c, "dead", "reported")

\* The end of a command is handed over once, and only after it was reported.
Tell(c) == /\ life[c] = "reported"
           /\ c \notin told
           /\ told' = told \cup {c}
           /\ UNCHANGED life

Next == \E c \in Cmds : Launch(c) \/ Die(c) \/ Report(c) \/ Tell(c)

Spec == Init /\ [][Next]_lifeVars
=============================================================================
