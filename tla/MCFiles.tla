--------------------------------- MODULE MCFiles ---------------------------------
(***************************************************************************)
(* The functions of the namespace file.: one call on the files of a disk,  *)
(* or a log that is watched while it is written, part.                     *)
(***************************************************************************)
EXTENDS Files, LogWatch

VARIABLE part

MCInit ==
  /\ part \in {"calls", "watch"}
  /\ FileInit /\ (part = "calls" \/ \A p \in Paths : disk[p] = <<"b">>)
  /\ LogInit /\ (part = "watch" \/ (watch.kind = "log" /\ ~ watch.timed))

MCNext ==
  /\ UNCHANGED part
  /\ \/ part = "calls" /\ FileNext /\ UNCHANGED watchVars
     \/ part = "watch" /\ LogNext /\ UNCHANGED fileVars

MCWatcher == part = "watch" /\ (Watcher \/ Recreate) /\ UNCHANGED <<part, fileVars>>

\* The watch sleeps for a tenth of a second and polls again; a program that replaces its log opens
\* the new one.
MCSpec == MCInit /\ [][MCNext]_<<part, fileVars, watchVars>> /\ WF_<<part, fileVars, watchVars>>(MCWatcher)
================================================================================
