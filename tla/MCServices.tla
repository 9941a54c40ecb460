----------------------------- MODULE MCServices -----------------------------
(* Small instances of what surrounds the message path and has safety          *)
(* properties only: the admission of messages, the delivery of replies, the   *)
(* WebSocket bridge, evolution, the development engine, the skills engine and  *)
(* its lock.                                                                  *)
(* They share no state, so a behaviour is one of the part in focus while the  *)
(* others rest in an initial state; each is checked as it is alone.           *)
EXTENDS Inbound, Outbound, WsBridge, Evolution, DevEngine, SkillsEngine, SkillsLock

VARIABLE focus

serviceVars == <<focus, inVars, outVars, wsVars, evoVars, devVars, skillsVars,
                 lockVars>>

-----------------------------------------------------------------------------
(* Delivery: one reply of two chunks, one that no channel takes.              *)

TwoChunks == [r \in Replies |-> IF r = "r1" THEN 2 ELSE 1]
OneChat == [r \in Replies |-> "g"]

-----------------------------------------------------------------------------
(* Evolution: a group that did well, one that did badly, one with too few     *)
(* runs; a new genome, and one close to the limits of its ranges.             *)

Fast == [success |-> TRUE, ms |-> 4000]
Slow == [success |-> TRUE, ms |-> 40000]
Failed == [success |-> FALSE, ms |-> 0]
Week(f, s, x) == [k \in {Fast, Slow, Failed} |-> CASE k = Fast -> f
                                                  [] k = Slow -> s
                                                  [] k = Failed -> x]
Weeks == {Week(3, 0, 0), Week(0, 1, 2), Week(2, 0, 0)}
AllKinds == {Fast, Slow, Failed}
Extreme == [style |-> 3, formality |-> 690, depth |-> 1000, generation |-> 60]
Genomes == {DEFAULT_GENOME, Extreme}
Intervals == [micro |-> 2, weekly |-> 3]

-----------------------------------------------------------------------------
(* Skills: "mail" adds a file and changes the core, "voice" changes the core   *)
(* too and a file that has no clean copy.                                     *)

AllSkills == {"mail", "voice"}
AllFiles == {"core", "docs", "new", "env"}
NoneOf == [mail |-> {}, voice |-> {}]
Added == [NoneOf EXCEPT !.mail = {"new"}]
Modified == [mail |-> {"core"}, voice |-> {"core", "docs"}]
Merged == [NoneOf EXCEPT !.mail = {"env"}]
Needed == [NoneOf EXCEPT !.voice = {"mail"}]

\* The properties of the skills engine say nothing after any other hole.  Of two
\* faults, one is a crash that left its backup for the other to meet; no session of
\* a customisation is explored after a fault.
Covered ==
    /\ holes \subseteq {"crash"}
    /\ faults > 0 => session = {}
    /\ faults > 1 => holes = {"crash"} /\ backup # NoBackup

-----------------------------------------------------------------------------

AllServices == {"inbound", "route", "portal", "bridge", "evolution", "dev", "skills",
                "lock"}

ServiceInit ==
    /\ focus \in AllServices
    /\ InInit /\ OutInit /\ WsInit /\ EvoInit /\ DevInit /\ SkillsInit /\ LockInit
    /\ focus # "lock" => file = NoFile
    /\ \A g \in EvoGroups : /\ focus # "evolution" => runs[g] = Week(2, 0, 0)
                            /\ genome[g] = Extreme <=> runs[g] = Week(3, 0, 0)

\* The channel and the portal meet where a reply is stored: one focus has no
\* portal session, the other sends without a failure and in one go.
InOneGo == (\E r \in Replies : route[r].at = "send") => UNCHANGED portalVars

ServiceNext ==
    /\ UNCHANGED focus
    /\ \/ focus = "inbound" /\ InNext
       \/ focus # "inbound" /\ UNCHANGED inVars
    /\ \/ focus = "route" /\ OutNext /\ UNCHANGED sessions
       \/ focus = "portal" /\ OutNext /\ UNCHANGED outBudget.faults /\ InOneGo
       \/ focus \notin {"route", "portal"} /\ UNCHANGED outVars
    /\ \/ focus = "bridge" /\ WsNext
       \/ focus # "bridge" /\ UNCHANGED wsVars
    /\ \/ focus = "evolution" /\ EvoNext
       \/ focus # "evolution" /\ UNCHANGED evoVars
    /\ \/ focus = "dev" /\ DevNext
       \/ focus # "dev" /\ UNCHANGED devVars
    /\ \/ focus = "skills" /\ SkillsNext
       \/ focus # "skills" /\ UNCHANGED skillsVars
    /\ \/ focus = "lock" /\ LockNext
       \/ focus # "lock" /\ UNCHANGED lockVars

ServiceSpec == ServiceInit /\ [][ServiceNext]_serviceVars

\* apply, uninstall and rebase leave every skill they list complete, and the lock that is to
\* keep them apart excludes unless its file was taken for a corrupt one (lock.py).
SkillsSound == SkillsTypeOK /\ AppliedComplete /\ LockExclusive

=============================================================================
