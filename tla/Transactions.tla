---------------------------- MODULE Transactions ----------------------------
(***************************************************************************)
(* The updates of a node's database (database/ffsqlite): one transaction   *)
(* over the sqlite tables and the flat files of the public data, with      *)
(* hooks that run when it has committed.                                   *)
(*                                                                         *)
(* Updates are numbered; a file's content is the number of the update that *)
(* wrote it, and the tables are the set of updates committed to them.      *)
(* View and Update share one mutex, so a reader sees what is there when no *)
(* update is in progress.                                                  *)
(***************************************************************************)
EXTENDS Integers, Sequences

CONSTANTS Records,      \* files whose absence is not restored (profile, listings)
          Listings,     \* those of them that can be deleted
          Lists,        \* files whose absence is restored as an empty list
          Blobs,        \* files that are not restored (ratings, images)
          None,         \* content of a file that does not exist
          Empty,        \* content of a list nobody wrote
          Torn,         \* content of a file whose writing was cut off
          MaxUpdates,   \* bound: updates
          MaxWrites,    \* bound: files written in an update
          MaxErrors,    \* bound: disk errors
          MaxCrashes    \* bound: crashes

ASSUME FilesAssumption ==
  /\ Listings \subseteq Records
  /\ Records \cap (Lists \cup Blobs) = {} /\ Lists \cap Blobs = {}

ASSUME ContentAssumption ==
  {None, Empty, Torn} \cap Nat = {} /\ None # Empty /\ None # Torn /\ Empty # Torn

ASSUME BoundsAssumption ==
  MaxUpdates \in Nat /\ MaxWrites \in Nat /\ MaxErrors \in Nat /\ MaxCrashes \in Nat

VARIABLES
  rows,      \* updates committed to the tables
  files,     \* the content of each file
  tx,        \* the update in progress
  leaked,    \* a transaction that was not ended holds the tables' write lock
  count,     \* updates begun
  ran,       \* updates whose hooks have run
  errors,    \* disk errors so far
  crashes,   \* crashes so far
  latest     \* for each file, the last committed update that wrote it and what

vars == <<rows, files, tx, leaked, count, ran, errors, crashes, latest>>

File == Records \cup Lists \cup Blobs

Content == Nat \cup {None, Empty, Torn}

Write == [file: File, content: Content]

Version == [by: Nat, content: Content]

Missing == [f \in File |-> [by |-> 0, content |-> None]]

Transaction == [at: {"idle", "fn", "commit", "hooks", "undo"}, commit: Seq(Write),
                rollback: Seq(Write), i: Nat \ {0}, saved: BOOLEAN,
                before: [File -> Content], next: [File -> Version]]

\* commitCache and rollbackCache, the next entry i of the one in use, and whether
\* rows were saved; to state the properties, the files as the update found them
\* and "latest" as it is to be when the update has committed.
Idle == [at |-> "idle", commit |-> <<>>, rollback |-> <<>>, i |-> 1, saved |-> FALSE,
         before |-> [f \in File |-> None], next |-> Missing]

Init ==
  /\ rows = {} /\ files = [f \in File |-> None]
  /\ tx = Idle /\ leaked = FALSE
  /\ count = 0 /\ ran = {}
  /\ errors = 0 /\ crashes = 0
  /\ latest = Missing

-----------------------------------------------------------------------------
(* The caller's function *)

Begin ==
  /\ tx.at = "idle" /\ count < MaxUpdates
  /\ count' = count + 1
  /\ tx' = [Idle EXCEPT !.at = "fn", !.before = files, !.next = latest]
  /\ UNCHANGED <<rows, files, leaked, ran, errors, crashes, latest>>

\* Mutant: the restore starts before the first entry.
RollBackFromZero == tx' = [tx EXCEPT !.at = "undo", !.i = 0]

RollBack == tx' = [tx EXCEPT !.at = "undo", !.i = 1]

\* Save, Update and Delete: sqlite refuses them while another transaction holds
\* the write lock, and then the caller must Refuse.
Save ==
  /\ tx.at = "fn" /\ ~leaked
  /\ tx' = [tx EXCEPT !.saved = TRUE]
  /\ UNCHANGED <<rows, files, leaked, count, ran, errors, crashes, latest>>

\* The setters read the file first, to restore it later; SetRating and SetImage
\* do not. One that cannot be read is not overwritten: the caller gets an error
\* and returns it.
Cache(f, content) ==
  /\ tx.at = "fn" /\ Len(tx.commit) < MaxWrites
  /\ IF f \notin Blobs /\ files[f] = Torn THEN RollBack
     ELSE tx' = [tx EXCEPT
            !.commit = Append(@, [file |-> f, content |-> content]),
            !.next[f] = [by |-> count, content |-> content],
            !.rollback = IF f \in Blobs THEN @
                         ELSE Append(@, [file |-> f, content |-> files[f]])]
  /\ UNCHANGED <<rows, files, leaked, count, ran, errors, crashes, latest>>

SetFile(f) == Cache(f, count)

DeleteListing(f) == f \in Listings /\ Cache(f, None)

\* The caller's function returns an error.
Refuse ==
  /\ tx.at = "fn"
  /\ RollBack
  /\ UNCHANGED <<rows, files, leaked, count, ran, errors, crashes, latest>>

Return ==
  /\ tx.at = "fn"
  /\ tx' = [tx EXCEPT !.at = "commit"]
  /\ UNCHANGED <<rows, files, leaked, count, ran, errors, crashes, latest>>

-----------------------------------------------------------------------------
(* Commit *)

\* setInterfaceType, for the next entry of the commit cache.
WriteFile ==
  /\ tx.at = "commit" /\ tx.i <= Len(tx.commit)
  /\ LET w == tx.commit[tx.i]
     IN  /\ w.content = None => files[w.file] # None
         /\ files' = [files EXCEPT ![w.file] = w.content]
  /\ tx' = [tx EXCEPT !.i = @ + 1]
  /\ UNCHANGED <<rows, leaked, count, ran, errors, crashes, latest>>

\* A listing that is not there cannot be removed.
RemoveFails ==
  /\ tx.at = "commit" /\ tx.i <= Len(tx.commit)
  /\ LET w == tx.commit[tx.i] IN w.content = None /\ files[w.file] = None
  /\ RollBack
  /\ UNCHANGED <<rows, files, leaked, count, ran, errors, crashes, latest>>

\* Files are truncated and then written.
Cut(f) == files' \in {files, [files EXCEPT ![f] = Torn]}

WriteFails ==
  /\ tx.at = "commit" /\ tx.i <= Len(tx.commit)
  /\ errors < MaxErrors /\ errors' = errors + 1
  /\ Cut(tx.commit[tx.i].file)
  /\ RollBack
  /\ UNCHANGED <<rows, leaked, count, ran, crashes, latest>>

\* Mutant: the rows are committed before the files are written.
CommitRowsEarly ==
  /\ tx.at = "commit"
  /\ rows' = rows \cup {count} /\ latest' = tx.next
  /\ tx' = [tx EXCEPT !.at = "hooks"]
  /\ UNCHANGED <<files, leaked, count, ran, errors, crashes>>

CommitRows ==
  /\ tx.at = "commit" /\ tx.i > Len(tx.commit)
  /\ rows' = rows \cup {count} /\ latest' = tx.next
  /\ tx' = [tx EXCEPT !.at = "hooks"]
  /\ UNCHANGED <<files, leaked, count, ran, errors, crashes>>

CommitFails ==
  /\ tx.at = "commit" /\ tx.i > Len(tx.commit)
  /\ RollBack
  /\ UNCHANGED <<rows, files, leaked, count, ran, errors, crashes, latest>>

RunHooks ==
  /\ tx.at = "hooks"
  /\ ran' = ran \cup {count}
  /\ tx' = Idle
  /\ UNCHANGED <<rows, files, leaked, count, errors, crashes, latest>>

-----------------------------------------------------------------------------
(* Rollback *)

\* Mutant: a file is restored to nothing.
RestoredToNothing(w) == None

\* What setInterfaceType writes for an old content: it skips a record that was
\* not there, and stores a list that was not there as an empty one.
Restored(w) ==
  IF w.content # None THEN w.content
  ELSE IF w.file \in Lists THEN Empty ELSE files[w.file]

Undo ==
  /\ tx.at = "undo" /\ tx.i <= Len(tx.rollback)
  /\ LET w == tx.rollback[tx.i]
     IN  files' = [files EXCEPT ![w.file] = Restored(w)]
  /\ tx' = [tx EXCEPT !.i = @ + 1]
  /\ UNCHANGED <<rows, leaked, count, ran, errors, crashes, latest>>

\* The error is returned before the sqlite transaction is rolled back.
UndoFails ==
  /\ tx.at = "undo" /\ tx.i <= Len(tx.rollback)
  /\ errors < MaxErrors /\ errors' = errors + 1
  /\ Cut(tx.rollback[tx.i].file)
  /\ tx' = Idle /\ leaked' = (leaked \/ tx.saved)
  /\ UNCHANGED <<rows, count, ran, crashes, latest>>

\* Mutant: the hooks run however the update ends.
RollBackRowsWithHooks ==
  /\ tx.at = "undo" /\ tx.i > Len(tx.rollback)
  /\ ran' = ran \cup {count}
  /\ tx' = Idle
  /\ UNCHANGED <<rows, files, leaked, count, errors, crashes, latest>>

RollBackRows ==
  /\ tx.at = "undo" /\ tx.i > Len(tx.rollback)
  /\ tx' = Idle
  /\ UNCHANGED <<rows, files, leaked, count, ran, errors, crashes, latest>>

\* A crash drops the sqlite transaction; a file that was being written is cut.
Crash ==
  /\ crashes < MaxCrashes /\ crashes' = crashes + 1
  /\ \/ UNCHANGED files
     \/ tx.at = "commit" /\ tx.i <= Len(tx.commit) /\ Cut(tx.commit[tx.i].file)
     \/ tx.at = "undo" /\ tx.i <= Len(tx.rollback) /\ Cut(tx.rollback[tx.i].file)
  /\ tx' = Idle /\ leaked' = FALSE
  /\ UNCHANGED <<rows, count, ran, errors, latest>>

Next ==
  \/ Begin \/ Save \/ Refuse \/ Return
  \/ \E f \in File : SetFile(f) \/ DeleteListing(f)
  \/ WriteFile \/ RemoveFails \/ WriteFails
  \/ CommitRows \/ CommitFails \/ RunHooks
  \/ Undo \/ UndoFails \/ RollBackRows
  \/ Crash

Spec == Init /\ [][Next]_vars

-----------------------------------------------------------------------------
(* Properties *)

\* Every variable has its type.
TypeOK ==
  /\ rows \subseteq 0..MaxUpdates
  /\ files \in [File -> Content]
  /\ tx \in Transaction
  /\ leaked \in BOOLEAN
  /\ count \in 0..MaxUpdates /\ ran \subseteq 0..MaxUpdates
  /\ errors \in 0..MaxErrors /\ crashes \in 0..MaxCrashes
  /\ latest \in [File -> Version]

\* What a committed update left in a file that is restorable.
Kept(f, content) == latest[f].content # None => content = latest[f].content

\* Unless the disk fails or the node stops, updates that fail, in the caller's
\* function, in a removal or in the commit of the rows, leave every file that a
\* committed update wrote (and that is restorable) as that update left it.
FilesMatchRows ==
  tx.at = "idle" /\ errors = 0 /\ crashes = 0 =>
    \A f \in File \ Blobs : Kept(f, files[f])

\* A content that is not older than the tables: what the last committed update
\* left, what a later one left, or cut off. A listing may be missing, removed by
\* a later update, and a list that nobody committed may be there, empty.
NotOlder(f, content) ==
  \/ content = latest[f].content
  \/ content \in Nat /\ content > latest[f].by
  \/ content = Torn
  \/ f \in Listings /\ content = None
  \/ f \in Lists /\ latest[f].content = None /\ content = Empty

\* Whatever fails and whenever the node stops, no file is older than the tables.
FilesNeverLag == \A f \in File : NotOlder(f, files[f])

\* The messages and events of an update leave the node only if its rows are in
\* the tables, and they do unless the node stops.
HooksFollowCommit ==
  /\ ran \subseteq rows
  /\ tx.at = "idle" /\ crashes = 0 => ran = rows
=============================================================================
