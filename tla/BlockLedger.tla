---------------------------- MODULE BlockLedger ----------------------------
(***************************************************************************)
(* What block management promises about a scope, over each kind of store.  *)
(* Nothing is enforced that nobody asked for, for longer than it was asked *)
(* for, or after somebody asked for its end, with these exceptions: Redis  *)
(* alone lets a block without an end lapse; and in the tiers a ban ends    *)
(* only by its record, of which there are copies that last a lease: who    *)
(* has learnt of a ban may still make one after it was lifted.             *)
(***************************************************************************)
EXTENDS Naturals

CONSTANTS
  Scopes,   \* what can be blocked
  Terms,    \* what a block may be asked for: ticks, or Forever
  Lease,    \* how long a copy of a ban lasts, in ticks
  Longest,  \* the longest time any block or copy lasts
  Forever   \* no end

VARIABLES
  deployment,  \* the kind of store: "memory", "redis" or "tiered"
  asked,       \* an input: <<scope, term>> of the calls under way, term 0 for an unblock
  force,       \* how long each scope is still blocked
  copied,      \* scopes something that ends by itself is kept for
  knows        \* scopes whose ban somebody has learnt of and may copy

TypeOK ==
  /\ force \in [Scopes -> 0..Longest \union {Forever}]
  /\ copied \subseteq Scopes /\ knows \subseteq Scopes

Init == force = [s \in Scopes |-> 0] /\ copied = {} /\ knows = {}

\* A ban of the tiers: it is on record.
OnRecord(s) == deployment = "tiered" /\ force[s] = Forever

\* What a block asked for d brings.
Term(d) == IF d = Forever /\ deployment = "redis" THEN Lease ELSE d

Sets(s, d) == force' = [force EXCEPT ![s] = IF OnRecord(s) THEN Forever ELSE d]

\* A block somebody asks for takes the place of the one in force, but for a ban on record.
Impose(s) == \E d \in Terms :
  /\ <<s, d>> \in asked
  /\ Sets(s, Term(d))
  /\ IF deployment = "tiered" /\ d = Forever
     THEN knows' \in {knows, knows \union {s}} /\ UNCHANGED copied
     ELSE copied' = copied \union {s} /\ UNCHANGED knows

\* An unblock ends all but what is on record.
Withdraw(s) ==
  /\ <<s, 0>> \in asked
  /\ Sets(s, 0) /\ copied' = copied \ {s}
  /\ UNCHANGED knows

\* And then the record; what has been written or copied since is left.
Lift(s) == \E d \in 0..Longest :
  /\ <<s, 0>> \in asked /\ OnRecord(s)
  /\ d = 0 <=> s \notin copied
  /\ force' = [force EXCEPT ![s] = d]
  /\ UNCHANGED <<copied, knows>>

Learn(s) == OnRecord(s) /\ knows' = knows \union {s} /\ UNCHANGED <<force, copied>>

\* Who has learnt of a ban copies it, whatever has become of it.
Copy(s) ==
  /\ s \in knows
  /\ Sets(s, Lease) /\ copied' = copied \union {s}
  /\ knows' \in {knows, knows \ {s}}

Forget(s) == knows' = knows \ {s} /\ UNCHANGED <<force, copied>>

\* Time passes; copies of a ban end unseen.
Tick ==
  /\ force' = [s \in Scopes |-> IF force[s] \in {0, Forever} THEN force[s] ELSE force[s] - 1]
  /\ copied' \subseteq copied
  /\ \A s \in Scopes : force'[s] # Forever => (s \in copied' <=> force'[s] # 0)
  /\ UNCHANGED knows

Next ==
  /\ \/ \E s \in Scopes : Impose(s) \/ Withdraw(s) \/ Lift(s) \/ Learn(s) \/ Copy(s) \/ Forget(s)
     \/ Tick
  /\ UNCHANGED deployment

Spec == Init /\ [][Next]_<<deployment, force, copied, knows>>
=============================================================================
