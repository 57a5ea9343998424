------------------------------ MODULE Reading -------------------------------
(***************************************************************************)
(* The commands that read a backup: one restore, one drill or one verify,  *)
(* on a destination that may change before and while it reads.             *)
(***************************************************************************)
EXTENDS Drill, Verify

vars == <<stored, changes, touched, setting, work, drillVars, verifyVars>>

Init == StoredInit /\ RestoreInit /\ DrillInit /\ VerifyInit

Idling == at = "idle" /\ phase = "idle" /\ step = "idle"

\* cli/restore.go: by date, or by a manifest's key, which then gives the date.
AskRestore ==
  /\ Idling
  /\ \E r \in Repos, date \in Dates, n \in Names \cup {None} :
       /\ n # None => setting.pub /\ date = Idle.date
       /\ Asked([repo |-> r, date |-> date, manifest |-> n], None)
  /\ UNCHANGED <<drillVars, verifyVars>>

\* cli/drill.go, which needs the public key: the newest manifest, or the one
\* that is named.
AskDrill ==
  /\ Idling
  /\ setting.pub
  /\ \E n \in Names \cup {None}, s \in 0 .. N - 1 :
       /\ phase' = IF n = None THEN "pick" ELSE "load"
       /\ key' = n /\ sample' = s
  /\ UNCHANGED <<doc, todo, outcome, came, files, tries, reportKey, exit>>
  /\ UNCHANGED <<work, verifyVars>>

\* cli/verify.go, which needs the public key.
AskVerify ==
  /\ Idling
  /\ setting.pub
  /\ \E n \in Names : step' = "load" /\ asked' = n
  /\ UNCHANGED <<manifest, check, read, verdict, work, drillVars>>

Ask == (AskRestore \/ AskDrill \/ AskVerify) /\ UNCHANGED <<stored, changes, touched, setting>>

Command ==
  \/ Ask
  \/ RestoreStep /\ UNCHANGED <<drillVars, verifyVars>>
  \/ DrillStep /\ UNCHANGED verifyVars
  \/ VerifyStep /\ UNCHANGED <<setting, touched, work, drillVars>>

World ==
  \/ /\ Change
     /\ touched' = IF at = "search" \/ result = "unrecorded"
                   THEN touched \cup {n \in Names : filed'[n] # filed[n]}
                   ELSE touched
     /\ UNCHANGED <<setting, work, drillVars, verifyVars>>
  \/ OtherDrill /\ UNCHANGED <<stored, changes, touched, setting, work, verifyVars>>

Next == Command \/ World

\* Every wait of a command is for the store, for git or for its own reads, and
\* a stop or a time limit ends it.
Spec == Init /\ [][Next]_vars /\ WF_vars(Command)

Ended == (phase = "idle" /\ at = "returned") \/ phase = "done" \/ step = "done"

TypeOK == StoredTypeOK /\ RestoreTypeOK /\ DrillTypeOK /\ VerifyTypeOK

\* Every command ends, whatever is stored, deleted or damaged while it reads:
\* the reads of a verify never wait for slots that nobody gives back.
CommandEnds == <>Ended
=============================================================================
