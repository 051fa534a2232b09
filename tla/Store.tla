-------------------------------- MODULE Store --------------------------------
(***************************************************************************)
(* The rules file as store.rs writes and reads it: a temporary file in the *)
(* same directory is created, written, synced and renamed over the old     *)
(* file.  A process may die between any two calls, and the machine may     *)
(* lose power; the directory is never synced, and a sync that fails is not *)
(* noticed.                                                                *)
(*                                                                         *)
(* A file is what a name refers to: its contents (the list of rules that   *)
(* was meant to be written, and whether all of it is there), whether that  *)
(* is on stable storage ("yes", "no", or "lost": the sync failed unseen),  *)
(* and the process that still has it open.                                 *)
(***************************************************************************)
EXTENDS Sequences, Naturals

CONSTANTS
  Daemons,  \* moatd processes
  Faults    \* "load", "save": the disk refuses to read, to change anything;
            \* "sync": sync_all fails; "maps": sync_all(state)

ASSUME StoreAssumption ==
  Faults \subseteq {"load", "save", "sync", "maps"} /\ "none" \notin Daemons

VARIABLES
  file,   \* what /etc/moatd/rules.toml names; no file counts as an empty list
  tmp,    \* what rules.toml.tmp names, or NoFile
  older   \* files that rules.toml may name after a power loss

store == <<file, tmp, older>>

NoFile == [rules |-> <<>>, whole |-> FALSE, synced |-> "no", open |-> "none"]
Saved(s) == [rules |-> s, whole |-> TRUE, synced |-> "yes", open |-> "none"]

StoreInit ==
  /\ file = Saved(<<>>)
  /\ tmp = NoFile
  /\ older = {file}

\* Mutant: a temporary file left behind is not removed first.
AfterRemove_Kept(ok) == tmp

\* rules.toml.tmp after remove_file, which may fail and whose result is ignored.
AfterRemove(ok) == IF ok THEN NoFile ELSE tmp

\* create_new refuses a name that is taken.
CanCreate == tmp = NoFile

\* Mutant: the rules file itself is opened and truncated.
Create_InPlace(d, s) ==
  /\ file' = [rules |-> s, whole |-> FALSE, synced |-> "no", open |-> d]
  /\ tmp' = [rules |-> s, whole |-> FALSE, synced |-> "no", open |-> d]
  /\ UNCHANGED older

\* A new, empty file, open for d.
Create(d, s) ==
  /\ tmp' = [rules |-> s, whole |-> FALSE, synced |-> "no", open |-> d]
  /\ UNCHANGED <<file, older>>

\* write_all, and sync_all with its result ignored, on the file that d has
\* open, whichever name that has by now; the end of the block closes it.
Written(d, f, ok) ==
  IF f.open = d THEN [f EXCEPT !.whole = TRUE, !.synced = ok, !.open = "none"] ELSE f
WriteAndSync(d, ok) ==
  /\ file' = Written(d, file, ok) /\ tmp' = Written(d, tmp, ok)
  /\ UNCHANGED older

\* The name moves at once for everybody, on stable storage only later.
CanRename == tmp # NoFile
Rename ==
  /\ file' = tmp
  /\ tmp' = NoFile
  /\ older' = older \cup {tmp}

\* What load may return if the disk lets it read: a file that is not whole fails
\* to parse, which means the defaults, or parses as some of the rules.
Loaded ==
  IF file.whole THEN {file.rules}
  ELSE {SubSeq(file.rules, 1, k) : k \in 0..Len(file.rules)}

\* The files of d are closed as they are: it died or gave up.
Closed(d, f) == IF f.open = d THEN [f EXCEPT !.open = "none"] ELSE f
Abandon(d) ==
  /\ file' = Closed(d, file) /\ tmp' = Closed(d, tmp)
  /\ UNCHANGED older

-----------------------------------------------------------------------------
(* The file system *)

\* The kernel writes everything back some time.
Writeback ==
  /\ older # {file} \/ file.synced # "yes"
  /\ file' = [file EXCEPT !.synced = "yes"]
  /\ older' = {file'}
  /\ UNCHANGED tmp

\* After a power loss the name is one it had since the last writeback; what was
\* not synced may be missing.  A temporary file may remain.
LosePower ==
  /\ \E f \in older, w \in BOOLEAN :
       /\ f.synced = "yes" => w = f.whole
       /\ file' = [f EXCEPT !.whole = w, !.synced = "yes", !.open = "none"]
  /\ older' = {file'}
  /\ \/ tmp' = NoFile
     \/ tmp # NoFile /\ tmp' = [tmp EXCEPT !.whole = FALSE, !.open = "none"]
=============================================================================
