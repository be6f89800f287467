------------------------- MODULE Transactions_proof -------------------------
(***************************************************************************)
(* Theorems about Transactions, for any files, updates, errors and crashes.*)
(***************************************************************************)
EXTENDS Transactions, TLAPS

LEMMA MissingType == Missing \in [File -> Version]
  BY DEF Missing, Version, Content

LEMMA IdleType == Idle \in Transaction
  BY MissingType, 1 \in Nat \ {0} DEF Idle, Transaction, Content

At == {"idle", "fn", "commit", "hooks", "undo"}

\* The parts of a transaction, and the steps it takes.
LEMMA TransactionType ==
  ASSUME NEW t \in Transaction
  PROVE  /\ t.i \in Nat \ {0} /\ t.at \in At
         /\ t.commit \in Seq(Write) /\ t.rollback \in Seq(Write)
         /\ t.before \in [File -> Content] /\ t.next \in [File -> Version]
<1>1. t.at \in At /\ t.i \in Nat \ {0}
  BY DEF Transaction, At
<1>2. t.commit \in Seq(Write) /\ t.rollback \in Seq(Write)
  BY DEF Transaction
<1>3. t.before \in [File -> Content]
  BY DEF Transaction
<1>4. t.next \in [File -> Version]
  BY DEF Transaction
<1> QED
  BY <1>1, <1>2, <1>3, <1>4

LEMMA TransactionStep ==
  ASSUME NEW t \in Transaction
  PROVE  /\ \A a \in At : [t EXCEPT !.at = a] \in Transaction
         /\ \A a \in At : [t EXCEPT !.at = a, !.i = 1] \in Transaction
         /\ [t EXCEPT !.i = t.i + 1] \in Transaction
         /\ [t EXCEPT !.saved = TRUE] \in Transaction
<1>1. \A a \in At : [t EXCEPT !.at = a] \in Transaction
  BY DEF Transaction, At
<1>2. \A a \in At : [t EXCEPT !.at = a, !.i = 1] \in Transaction
  BY 1 \in Nat \ {0} DEF Transaction, At
<1>3. [t EXCEPT !.i = t.i + 1] \in Transaction
  <2>1. t.i + 1 \in Nat \ {0}
    BY TransactionType
  <2> QED
    BY <2>1 DEF Transaction
<1>4. [t EXCEPT !.saved = TRUE] \in Transaction
  BY DEF Transaction
<1> QED
  BY <1>1, <1>2, <1>3, <1>4

\* A file that is cut off, or not, is still a file.
LEMMA CutType == ASSUME files \in [File -> Content], NEW f \in File, Cut(f)
                 PROVE  files' \in [File -> Content]
  BY DEF Cut, Content

LEMMA TypeInit == Init => TypeOK
<1> SUFFICES ASSUME Init PROVE TypeOK
  OBVIOUS
<1>1. files \in [File -> Content]
  BY DEF Init, Content
<1>2. latest \in [File -> Version]
  BY MissingType DEF Init
<1>3. tx \in Transaction
  BY IdleType DEF Init
<1>4. rows \subseteq 0..MaxUpdates /\ ran \subseteq 0..MaxUpdates /\ leaked \in BOOLEAN
  BY DEF Init
<1>5. count \in 0..MaxUpdates /\ errors \in 0..MaxErrors /\ crashes \in 0..MaxCrashes
  BY BoundsAssumption DEF Init
<1> QED
  BY <1>1, <1>2, <1>3, <1>4, <1>5 DEF TypeOK

\* The entry that the commit or the restore is at.
LEMMA EntryType ==
  ASSUME TypeOK
  PROVE  /\ tx.i <= Len(tx.commit) => tx.commit[tx.i] \in Write
         /\ tx.i <= Len(tx.rollback) => tx.rollback[tx.i] \in Write
<1>1. tx.i \in Nat \ {0} /\ tx.commit \in Seq(Write) /\ tx.rollback \in Seq(Write)
  BY TransactionType DEF TypeOK
<1> QED
  BY <1>1

LEMMA CacheType == ASSUME TypeOK, NEW f \in File, NEW c \in Content, Cache(f, c)
                   PROVE  TypeOK'
<1> DEFINE w(d) == [file |-> f, content |-> d]
<1>1. w(c) \in Write /\ w(files[f]) \in Write
  BY DEF TypeOK, Write
<1>2. /\ tx \in Transaction /\ tx.commit \in Seq(Write) /\ tx.rollback \in Seq(Write)
      /\ tx.next \in [File -> Version]
  BY TransactionType DEF TypeOK
<1>3. Append(tx.commit, w(c)) \in Seq(Write) /\ Append(tx.rollback, w(files[f])) \in Seq(Write)
  BY <1>1, <1>2
<1>4. [tx.next EXCEPT ![f] = [by |-> count, content |-> c]] \in [File -> Version]
  BY <1>2, BoundsAssumption DEF TypeOK, Version
<1>5. \A q, r \in Seq(Write), n \in [File -> Version] :
        [tx EXCEPT !.commit = q, !.rollback = r, !.next = n] \in Transaction
  BY <1>2 DEF Transaction
<1>6. tx' \in Transaction
  <2>1. CASE f \notin Blobs /\ files[f] = Torn
    BY <2>1, <1>2, TransactionStep DEF Cache, RollBack, At
  <2>2. CASE ~(f \notin Blobs /\ files[f] = Torn)
    <3>1. tx' = [tx EXCEPT !.commit = Append(tx.commit, w(c)),
                          !.rollback = IF f \in Blobs THEN tx.rollback
                                       ELSE Append(tx.rollback, w(files[f])),
                          !.next = [tx.next EXCEPT ![f] = [by |-> count, content |-> c]]]
      BY <2>2, <1>2 DEF Cache, Transaction
    <3> QED
      BY <3>1, <1>2, <1>3, <1>4, <1>5
  <2> QED
    BY <2>1, <2>2
<1> QED
  BY <1>6 DEF TypeOK, Cache

LEMMA TypeNext == TypeOK /\ [Next]_vars => TypeOK'
<1> SUFFICES ASSUME TypeOK, [Next]_vars
             PROVE  TypeOK'
  OBVIOUS
<1>0. /\ tx \in Transaction /\ files \in [File -> Content]
      /\ count \in Nat /\ errors \in Nat /\ crashes \in Nat /\ latest \in [File -> Version]
  BY BoundsAssumption DEF TypeOK
<1>1. CASE Begin
  <2>1. tx' \in Transaction
    <3>1. tx' = [Idle EXCEPT !.at = "fn", !.before = files, !.next = latest]
      BY <1>1 DEF Begin
    <3> QED
      BY <3>1, <1>0, IdleType DEF Transaction
  <2>2. count' \in 0..MaxUpdates
    BY <1>1, BoundsAssumption DEF TypeOK, Begin
  <2> QED
    BY <1>1, <2>1, <2>2 DEF TypeOK, Begin
<1>2. CASE Save \/ Refuse \/ Return
  <2>1. tx' \in Transaction
    BY <1>2, <1>0, TransactionStep DEF Save, Refuse, Return, RollBack, At
  <2> QED
    BY <1>2, <2>1 DEF TypeOK, Save, Refuse, Return
<1>3. ASSUME NEW f \in File, SetFile(f) \/ DeleteListing(f)
      PROVE  TypeOK'
  <2>1. count \in Content /\ None \in Content
    BY <1>0 DEF Content
  <2> QED
    BY <1>3, <2>1, CacheType DEF SetFile, DeleteListing
<1>4. CASE WriteFile
  <2>1. tx' \in Transaction
    BY <1>4, <1>0, TransactionStep DEF WriteFile
  <2>2. tx.commit[tx.i].file \in File /\ tx.commit[tx.i].content \in Content
    BY <1>4, EntryType DEF WriteFile, Write
  <2>3. files' \in [File -> Content]
    BY <1>4, <1>0, <2>2 DEF WriteFile
  <2> QED
    BY <1>4, <2>1, <2>3 DEF TypeOK, WriteFile
<1>5. CASE RemoveFails \/ CommitFails
  <2>1. tx' \in Transaction
    BY <1>5, <1>0, TransactionStep DEF RemoveFails, CommitFails, RollBack, At
  <2> QED
    BY <1>5, <2>1 DEF TypeOK, RemoveFails, CommitFails
<1>6. CASE WriteFails
  <2>1. tx' \in Transaction
    BY <1>6, <1>0, TransactionStep DEF WriteFails, RollBack, At
  <2>2. tx.commit[tx.i].file \in File
    BY <1>6, EntryType DEF WriteFails, Write
  <2>3. files' \in [File -> Content]
    BY <1>6, <1>0, <2>2, CutType DEF WriteFails
  <2>4. errors' \in 0..MaxErrors
    BY <1>6, <1>0, BoundsAssumption DEF WriteFails
  <2> QED
    BY <1>6, <2>1, <2>3, <2>4 DEF TypeOK, WriteFails
<1>7. CASE CommitRows
  <2>1. tx' \in Transaction
    BY <1>7, <1>0, TransactionStep DEF CommitRows, At
  <2>3. latest' \in [File -> Version]
    BY <1>7, <1>0, TransactionType DEF CommitRows
  <2>4. rows' \subseteq 0..MaxUpdates
    BY <1>7 DEF TypeOK, CommitRows
  <2> QED
    BY <1>7, <2>1, <2>3, <2>4 DEF TypeOK, CommitRows
<1>8. CASE RunHooks
  <2>1. tx' \in Transaction
    BY <1>8, IdleType DEF RunHooks
  <2>2. ran' \subseteq 0..MaxUpdates
    BY <1>8 DEF TypeOK, RunHooks
  <2> QED
    BY <1>8, <2>1, <2>2 DEF TypeOK, RunHooks
<1>9. CASE Undo
  <2>1. tx' \in Transaction
    BY <1>9, <1>0, TransactionStep DEF Undo
  <2>2. PICK w \in Write : w = tx.rollback[tx.i]
    BY <1>9, EntryType DEF Undo
  <2>3. w.file \in File /\ Restored(w) \in Content
    BY <1>0 DEF Restored, Content, Write
  <2>4. files' \in [File -> Content]
    BY <1>9, <1>0, <2>2, <2>3 DEF Undo
  <2> QED
    BY <1>9, <2>1, <2>4 DEF TypeOK, Undo
<1>10. CASE UndoFails
  <2>1. tx' \in Transaction
    BY <1>10, IdleType DEF UndoFails
  <2>2. tx.rollback[tx.i].file \in File
    BY <1>10, EntryType DEF UndoFails, Write
  <2>3. files' \in [File -> Content]
    BY <1>10, <1>0, <2>2, CutType DEF UndoFails
  <2>4. errors' \in 0..MaxErrors
    BY <1>10, <1>0, BoundsAssumption DEF UndoFails
  <2>5. leaked' \in BOOLEAN
    BY <1>10 DEF UndoFails
  <2> QED
    BY <1>10, <2>1, <2>3, <2>4, <2>5 DEF TypeOK, UndoFails
<1>11. CASE RollBackRows
  <2>1. tx' \in Transaction
    BY <1>11, IdleType DEF RollBackRows
  <2> QED
    BY <1>11, <2>1 DEF TypeOK, RollBackRows
<1>12. CASE Crash
  <2>1. tx' \in Transaction /\ leaked' \in BOOLEAN
    BY <1>12, IdleType DEF Crash
  <2>2. files' \in [File -> Content]
    BY <1>12, <1>0, EntryType, CutType DEF Crash, Write
  <2>3. crashes' \in 0..MaxCrashes
    BY <1>12, <1>0, BoundsAssumption DEF Crash
  <2> QED
    BY <1>12, <2>1, <2>2, <2>3 DEF TypeOK, Crash
<1>13. CASE UNCHANGED vars
  BY <1>13 DEF TypeOK, vars
<1> QED
  BY <1>1, <1>2, <1>3, <1>4, <1>5, <1>6, <1>7, <1>8, <1>9, <1>10, <1>11, <1>12, <1>13
     DEF Next

\* The tables, the files and the update in progress keep their types.
THEOREM TypeCorrect == Spec => []TypeOK
  BY TypeInit, TypeNext, PTL DEF Spec

-----------------------------------------------------------------------------
(* The fields of the update in progress after a step *)

\* All that the invariants speak of but "at" and "i".
SameCaches ==
  /\ tx'.commit = tx.commit /\ tx'.rollback = tx.rollback
  /\ tx'.before = tx.before /\ tx'.next = tx.next

LEMMA RollBackFields ==
  ASSUME tx \in Transaction, RollBack
  PROVE  tx'.at = "undo" /\ tx'.i = 1 /\ SameCaches
BY DEF RollBack, Transaction, SameCaches

LEMMA EntryFields ==
  ASSUME tx \in Transaction, tx' = [tx EXCEPT !.i = @ + 1]
  PROVE  tx'.at = tx.at /\ tx'.i = tx.i + 1 /\ SameCaches
BY DEF Transaction, SameCaches

LEMMA SaveFields ==
  ASSUME tx \in Transaction, tx' = [tx EXCEPT !.saved = TRUE]
  PROVE  tx'.at = tx.at /\ tx'.i = tx.i /\ SameCaches
BY DEF Transaction, SameCaches

LEMMA AtFields ==
  ASSUME tx \in Transaction, NEW a, tx' = [tx EXCEPT !.at = a]
  PROVE  tx'.at = a /\ tx'.i = tx.i /\ SameCaches
BY DEF Transaction, SameCaches

LEMMA BeginFields ==
  ASSUME Begin
  PROVE  /\ tx'.at = "fn" /\ tx'.i = 1 /\ tx'.commit = <<>> /\ tx'.rollback = <<>>
         /\ tx'.before = files /\ tx'.next = latest
BY DEF Begin, Idle

LEMMA CacheFields ==
  ASSUME tx \in Transaction, NEW f, NEW c, Cache(f, c), f \in Blobs \/ files[f] # Torn
  PROVE  /\ tx'.at = "fn" /\ tx'.i = tx.i /\ tx'.before = tx.before
         /\ tx'.next = [tx.next EXCEPT ![f] = [by |-> count, content |-> c]]
         /\ tx'.commit = Append(tx.commit, [file |-> f, content |-> c])
         /\ tx'.rollback = IF f \in Blobs THEN tx.rollback
                           ELSE Append(tx.rollback, [file |-> f, content |-> files[f]])
BY DEF Cache, Transaction

-----------------------------------------------------------------------------
(* Hooks *)

\* The hooks of an update run between the commit of its rows and its end.
HooksInv ==
  /\ ran \subseteq rows
  /\ tx.at = "hooks" => count \in rows
  /\ crashes = 0 => rows \subseteq ran \cup (IF tx.at = "hooks" THEN {count} ELSE {})

LEMMA HooksNext == TypeOK /\ HooksInv /\ [Next]_vars => HooksInv'
<1> SUFFICES ASSUME TypeOK, HooksInv, [Next]_vars
             PROVE  HooksInv'
  OBVIOUS
<1>0. tx \in Transaction /\ crashes \in Nat
  BY BoundsAssumption DEF TypeOK
<1>1. CASE Begin
  <2>1. tx'.at = "fn"
    BY <1>1 DEF Begin, Idle
  <2> QED
    BY <1>1, <2>1 DEF HooksInv, Begin
<1>2. CASE CommitRows
  <2>1. tx'.at = "hooks" /\ tx.at = "commit"
    BY <1>2, <1>0 DEF CommitRows, Transaction
  <2> QED
    BY <1>2, <2>1 DEF HooksInv, CommitRows
<1>3. CASE RunHooks
  <2>1. tx'.at = "idle" /\ tx.at = "hooks"
    BY <1>3 DEF RunHooks, Idle
  <2> QED
    BY <1>3, <2>1 DEF HooksInv, RunHooks
<1>4. CASE Crash
  <2>1. tx'.at = "idle" /\ crashes' # 0
    BY <1>4, <1>0 DEF Crash, Idle
  <2> QED
    BY <1>4, <2>1 DEF HooksInv, Crash
<1>5. CASE \/ Save \/ Refuse \/ Return \/ WriteFile \/ RemoveFails \/ WriteFails
           \/ CommitFails \/ Undo \/ UndoFails \/ RollBackRows
           \/ \E f \in File : SetFile(f) \/ DeleteListing(f)
  <2>1. tx.at # "hooks" /\ tx'.at # "hooks"
    <3>1. CASE Save \/ Return \/ WriteFile \/ Undo
      BY <3>1, <1>0, SaveFields, AtFields, EntryFields DEF Save, Return, WriteFile, Undo
    <3>2. CASE Refuse \/ RemoveFails \/ WriteFails \/ CommitFails
      BY <3>2, <1>0, RollBackFields DEF Refuse, RemoveFails, WriteFails, CommitFails
    <3>3. CASE UndoFails \/ RollBackRows
      BY <3>3 DEF UndoFails, RollBackRows, Idle
    <3>4. CASE \E f \in File : SetFile(f) \/ DeleteListing(f)
      BY <3>4, <1>0, RollBackFields, CacheFields DEF SetFile, DeleteListing, Cache
    <3> QED
      BY <1>5, <3>1, <3>2, <3>3, <3>4
  <2>2. UNCHANGED <<rows, ran, crashes>>
    BY <1>5 DEF Save, Refuse, Return, WriteFile, RemoveFails, WriteFails, CommitFails,
      Undo, UndoFails, RollBackRows, SetFile, DeleteListing, Cache
  <2> QED
    BY <2>1, <2>2 DEF HooksInv
<1>6. CASE UNCHANGED vars
  BY <1>6 DEF HooksInv, vars
<1> QED
  BY <1>1, <1>2, <1>3, <1>4, <1>5, <1>6 DEF Next

\* Messages and events leave the node only for updates that committed, and for
\* all of them unless the node stops.
THEOREM HooksAfterCommit == Spec => []HooksFollowCommit
<1>1. Init => HooksInv
  BY DEF Init, HooksInv, Idle
<1>2. HooksInv => HooksFollowCommit
  BY DEF HooksInv, HooksFollowCommit
<1> QED
  BY <1>1, <1>2, HooksNext, TypeCorrect, PTL DEF Spec

-----------------------------------------------------------------------------
(* Files and tables *)

Working == tx.at \in {"fn", "commit", "undo"}

\* Still to be written by the commit.
Pending(f) == \E k \in tx.i..Len(tx.commit) : tx.commit[k].file = f

\* The commit cache, and the files as far as it is written: each file has the
\* content it is to have, or is still to be written, or is not written at all.
CommitInv ==
  /\ \A j \in 1..Len(tx.commit) :
       \/ tx.commit[j].content = count
       \/ tx.commit[j].file \in Listings /\ tx.commit[j].content = None
  /\ \A j \in 1..Len(tx.commit) :
       (\A k \in (j + 1)..Len(tx.commit) : tx.commit[k].file # tx.commit[j].file)
         => tx.commit[j].content = tx.next[tx.commit[j].file].content
  /\ \A f \in File :
       /\ tx.next[f].by <= count
       /\ \/ Pending(f)
          \/ files[f] = tx.next[f].content
          \/ tx.next[f] = latest[f] /\ files[f] = tx.before[f]

LagInv ==
  /\ \A f \in File : NotOlder(f, files[f]) /\ latest[f].by <= count
  /\ Working => \A f \in File : latest[f].by < count
  /\ Working => \A j \in 1..Len(tx.rollback) :
                  NotOlder(tx.rollback[j].file, tx.rollback[j].content)
  /\ tx.at = "fn" => tx.i = 1 /\ files = tx.before
  /\ tx.at \in {"fn", "commit"} => CommitInv

LEMMA LagInit == Init => LagInv
BY DEF Init, LagInv, Idle, Missing, NotOlder, Working, CommitInv

\* Cutting a file off does not make it older.
LEMMA CutNotOlder ==
  ASSUME files \in [File -> Content], \A f \in File : NotOlder(f, files[f]),
         UNCHANGED latest, NEW g, Cut(g)
  PROVE  \A f \in File : NotOlder(f, files[f])'
BY DEF Cut, NotOlder

LEMMA RestoredNotOlder ==
  ASSUME \A f \in File : NotOlder(f, files[f]), NEW w \in Write, NotOlder(w.file, w.content)
  PROVE  NotOlder(w.file, Restored(w))
<1>1. w.file \in File
  BY DEF Write
<1>2. CASE w.content # None
  BY <1>2 DEF Restored
<1>3. CASE w.content = None /\ w.file \notin Lists
  BY <1>1, <1>3 DEF Restored
<1>4. CASE w.content = None /\ w.file \in Lists
  <2>1. latest[w.file].content = None
    BY <1>4, FilesAssumption, ContentAssumption DEF NotOlder
  <2> QED
    BY <1>4, <2>1 DEF Restored, NotOlder
<1> QED
  BY <1>2, <1>3, <1>4

\* The steps that leave the files and the caches alone.
LEMMA LagKeeps ==
  ASSUME LagInv, UNCHANGED <<files, latest, count>>, SameCaches, tx'.i = tx.i,
         \/ tx'.at = tx.at
         \/ tx.at = "fn" /\ tx'.at = "commit"
  PROVE  LagInv'
BY DEF LagInv, SameCaches, NotOlder, Working, CommitInv, Pending

\* The steps to the restore.
LEMMA LagRollBack ==
  ASSUME TypeOK, LagInv, RollBack, UNCHANGED <<latest, count>>, Working,
         \A f \in File : NotOlder(f, files[f])'
  PROVE  LagInv'
<1>1. tx'.at = "undo" /\ SameCaches
  BY RollBackFields DEF TypeOK
<1> QED
  BY <1>1 DEF LagInv, SameCaches, NotOlder, Working

\* The steps to the end of an update that leave the tables alone.
LEMMA LagIdle ==
  ASSUME LagInv, tx' = Idle, UNCHANGED <<latest, count>>,
         \A f \in File : NotOlder(f, files[f])'
  PROVE  LagInv'
BY DEF LagInv, Idle, Working

LEMMA LagSet ==
  ASSUME TypeOK, LagInv, NEW f \in File, NEW c, Cache(f, c),
         c = count \/ (f \in Listings /\ c = None)
  PROVE  LagInv'
<1>0. tx \in Transaction /\ tx.at = "fn" /\ UNCHANGED <<files, latest, count>>
  BY DEF TypeOK, Cache
<1>1. CASE f \notin Blobs /\ files[f] = Torn
  <2>1. RollBack
    BY <1>1 DEF Cache
  <2>2. \A g \in File : NotOlder(g, files[g])'
    BY <1>0 DEF LagInv, NotOlder
  <2> QED
    BY <2>1, <2>2, <1>0, LagRollBack DEF Working
<1>2. CASE ~(f \notin Blobs /\ files[f] = Torn)
  <2> DEFINE w == [file |-> f, content |-> c]
  <2>1. /\ tx'.at = "fn" /\ tx'.i = 1 /\ tx.i = 1
        /\ tx'.before = tx.before /\ files = tx.before
        /\ tx'.next = [tx.next EXCEPT ![f] = [by |-> count, content |-> c]]
        /\ tx'.commit = Append(tx.commit, w)
        /\ tx'.rollback = IF f \in Blobs THEN tx.rollback
                          ELSE Append(tx.rollback, [file |-> f, content |-> files[f]])
    BY <1>0, <1>2, CacheFields DEF LagInv
  <2>2. tx.commit \in Seq(Write) /\ tx.rollback \in Seq(Write) /\ tx.next \in [File -> Version]
    BY <1>0, TransactionType
  <2>3. /\ Len(tx'.commit) = Len(tx.commit) + 1 /\ Len(tx.commit) \in Nat
        /\ tx'.commit[Len(tx.commit) + 1] = w
        /\ \A j \in 1..Len(tx.commit) : tx'.commit[j] = tx.commit[j]
    BY <2>1, <2>2
  <2>4. \A j \in 1..Len(tx'.rollback) :
          NotOlder(tx'.rollback[j].file, tx'.rollback[j].content)
    <3>1. \A j \in 1..Len(tx.rollback) :
            NotOlder(tx.rollback[j].file, tx.rollback[j].content)
      BY <1>0 DEF LagInv, Working
    <3>2. CASE f \in Blobs
      BY <3>1, <3>2, <2>1
    <3>3. CASE f \notin Blobs
      BY <3>1, <3>3, <2>1, <2>2 DEF LagInv
    <3> QED
      BY <3>2, <3>3
  <2>5. CommitInv
    BY <1>0 DEF LagInv
  <2>6. CommitInv'
    <3>1. \A j \in 1..Len(tx'.commit) :
            \/ tx'.commit[j].content = count'
            \/ tx'.commit[j].file \in Listings /\ tx'.commit[j].content = None
      BY <2>3, <2>5, <1>0 DEF CommitInv
    <3>2. ASSUME NEW j \in 1..Len(tx'.commit),
                 \A k \in (j + 1)..Len(tx'.commit) : tx'.commit[k].file # tx'.commit[j].file
          PROVE  tx'.commit[j].content = tx'.next[tx'.commit[j].file].content
      <4>1. CASE j = Len(tx.commit) + 1
        BY <4>1, <2>1, <2>2, <2>3
      <4>2. CASE j \in 1..Len(tx.commit)
        <5>1. tx.commit[j].file # f
          BY <3>2, <4>2, <2>3
        <5>2. ASSUME NEW k \in (j + 1)..Len(tx.commit)
              PROVE  tx.commit[k].file # tx.commit[j].file
          <6>1. k \in (j + 1)..Len(tx'.commit) /\ k \in 1..Len(tx.commit)
            BY <4>2, <2>3
          <6>2. tx'.commit[k].file # tx'.commit[j].file
            BY <6>1, <3>2
          <6> QED
            BY <6>1, <6>2, <4>2, <2>3
        <5>3. tx.commit[j].content = tx.next[tx.commit[j].file].content
          BY <4>2, <5>2, <2>5 DEF CommitInv
        <5>4. tx.commit[j].file \in File
          <6>1. tx.commit[j] \in Write
            BY <4>2, <2>2
          <6> QED
            BY <6>1 DEF Write
        <5> QED
          BY <4>2, <5>1, <5>3, <5>4, <2>1, <2>2, <2>3
      <4> QED
        BY <4>1, <4>2, <2>3
    <3>3. ASSUME NEW g \in File
          PROVE  /\ tx'.next[g].by <= count'
                 /\ \/ Pending(g)'
                    \/ files'[g] = tx'.next[g].content
                    \/ tx'.next[g] = latest'[g] /\ files'[g] = tx'.before[g]
      <4>1. CASE g = f
        <5>1. tx'.next[g].by = count
          BY <4>1, <2>1, <2>2
        <5>2. Pending(g)'
          BY <4>1, <2>1, <2>3 DEF Pending
        <5>3. count \in Nat
          BY BoundsAssumption DEF TypeOK
        <5> QED
          BY <5>1, <5>2, <5>3, <1>0
      <4>2. CASE g # f
        <5>1. tx'.next[g] = tx.next[g]
          BY <4>2, <2>1, <2>2
        <5>2. ASSUME Pending(g) PROVE Pending(g)'
          <6>1. PICK k \in 1..Len(tx.commit) : tx.commit[k].file = g
            BY <5>2, <2>1, <2>3 DEF Pending
          <6>2. tx'.commit[k].file = g /\ k \in 1..Len(tx'.commit)
            BY <6>1, <2>3
          <6> QED
            BY <6>2, <2>1 DEF Pending
        <5> QED
          BY <5>1, <5>2, <2>1, <2>5, <1>0 DEF CommitInv
      <4> QED
        BY <4>1, <4>2
    <3> QED
      BY <3>1, <3>2, <3>3 DEF CommitInv
  <2>7. /\ \A g \in File : NotOlder(g, files[g])' /\ latest'[g].by <= count'
        /\ \A g \in File : latest'[g].by < count'
        /\ \A j \in 1..Len(tx'.rollback) :
             NotOlder(tx.rollback[j].file, tx.rollback[j].content)'
    BY <1>0, <2>4 DEF LagInv, NotOlder, Working
  <2> QED
    BY <1>0, <2>1, <2>6, <2>7 DEF LagInv
<1> QED
  BY <1>1, <1>2

LEMMA LagWrite == ASSUME TypeOK, LagInv, WriteFile PROVE LagInv'
<1> DEFINE w == tx.commit[tx.i]
<1>0. /\ tx \in Transaction /\ tx.at = "commit" /\ tx.i <= Len(tx.commit)
      /\ files \in [File -> Content] /\ files' = [files EXCEPT ![w.file] = w.content]
      /\ UNCHANGED <<latest, count>> /\ count \in Nat /\ latest \in [File -> Version]
  BY BoundsAssumption DEF TypeOK, WriteFile
<1>1. tx'.at = "commit" /\ tx'.i = tx.i + 1 /\ SameCaches
  BY <1>0, EntryFields DEF WriteFile
<1>2. w.file \in File /\ tx.i \in 1..Len(tx.commit)
  BY <1>0, EntryType, TransactionType DEF Write
<1>3. CommitInv /\ \A f \in File : latest[f].by < count
  BY <1>0 DEF LagInv, Working
<1>4. \A f \in File : NotOlder(f, files[f])'
  <2>1. w.content = count \/ (w.file \in Listings /\ w.content = None)
    BY <1>2, <1>3 DEF CommitInv
  <2>2. NotOlder(w.file, w.content)
    BY <2>1, <1>0, <1>2, <1>3 DEF NotOlder
  <2> QED
    BY <2>2, <1>0, <1>2 DEF LagInv, NotOlder
<1>5. ASSUME NEW f \in File
      PROVE  \/ Pending(f)'
             \/ files'[f] = tx'.next[f].content
             \/ tx'.next[f] = latest'[f] /\ files'[f] = tx'.before[f]
  <2>1. CASE f = w.file
    <3>1. CASE \A k \in (tx.i + 1)..Len(tx.commit) : tx.commit[k].file # w.file
      <4>1. w.content = tx.next[f].content
        BY <2>1, <3>1, <1>2, <1>3 DEF CommitInv
      <4> QED
        BY <4>1, <2>1, <1>0, <1>1 DEF SameCaches
    <3>2. CASE \E k \in (tx.i + 1)..Len(tx.commit) : tx.commit[k].file = w.file
      BY <3>2, <2>1, <1>1 DEF Pending, SameCaches
    <3> QED
      BY <3>1, <3>2
  <2>2. CASE f # w.file
    <3>1. Pending(f) => Pending(f)'
      <4> SUFFICES ASSUME NEW k \in tx.i..Len(tx.commit), tx.commit[k].file = f
                   PROVE  Pending(f)'
        BY DEF Pending
      <4>1. k \in (tx.i + 1)..Len(tx.commit)
        BY <2>2, <1>2
      <4> QED
        BY <4>1, <1>1 DEF Pending, SameCaches
    <3>2. files'[f] = files[f]
      BY <2>2, <1>0
    <3> QED
      BY <3>1, <3>2, <1>0, <1>1, <1>3 DEF CommitInv, SameCaches
  <2> QED
    BY <2>1, <2>2
<1>6. CommitInv'
  BY <1>0, <1>1, <1>3, <1>5 DEF CommitInv, SameCaches
<1>7. \A j \in 1..Len(tx'.rollback) : NotOlder(tx.rollback[j].file, tx.rollback[j].content)'
  BY <1>0, <1>1 DEF LagInv, Working, SameCaches, NotOlder
<1> QED
  BY <1>0, <1>1, <1>3, <1>4, <1>6, <1>7 DEF LagInv

LEMMA LagCommit == ASSUME TypeOK, LagInv, CommitRows PROVE LagInv'
<1>0. /\ tx \in Transaction /\ tx.at = "commit" /\ tx.i > Len(tx.commit)
      /\ UNCHANGED <<files, count>> /\ latest' = tx.next
  BY DEF TypeOK, CommitRows
<1>1. tx'.at = "hooks"
  BY <1>0, AtFields DEF CommitRows
<1>2. ASSUME NEW f \in File
      PROVE  NotOlder(f, files[f])' /\ latest'[f].by <= count'
  <2>1. ~Pending(f)
    <3>1. tx.i \in Nat /\ Len(tx.commit) \in Nat
      BY <1>0, TransactionType
    <3> QED
      BY <3>1, <1>0 DEF Pending
  <2>2. /\ tx.next[f].by <= count
        /\ files[f] = tx.next[f].content \/ tx.next[f] = latest[f]
    BY <2>1, <1>0 DEF LagInv, CommitInv
  <2> QED
    BY <2>2, <1>0 DEF LagInv, NotOlder
<1> QED
  BY <1>1, <1>2 DEF LagInv, Working

LEMMA LagUndo == ASSUME TypeOK, LagInv, Undo PROVE LagInv'
<1> DEFINE w == tx.rollback[tx.i]
<1>0. /\ tx \in Transaction /\ tx.at = "undo" /\ tx.i <= Len(tx.rollback)
      /\ files \in [File -> Content] /\ files' = [files EXCEPT ![w.file] = Restored(w)]
      /\ UNCHANGED <<latest, count>>
  BY DEF TypeOK, Undo
<1>1. tx'.at = "undo" /\ SameCaches
  BY <1>0, EntryFields DEF Undo
<1>2. w \in Write /\ tx.i \in 1..Len(tx.rollback)
  BY <1>0, EntryType, TransactionType
<1>3. NotOlder(w.file, Restored(w))
  BY <1>0, <1>2, RestoredNotOlder DEF LagInv, Working
<1>4. \A f \in File : NotOlder(f, files[f])'
  BY <1>0, <1>3 DEF LagInv, NotOlder
<1>5. \A j \in 1..Len(tx'.rollback) : NotOlder(tx.rollback[j].file, tx.rollback[j].content)'
  BY <1>0, <1>1 DEF LagInv, Working, SameCaches, NotOlder
<1> QED
  BY <1>0, <1>1, <1>4, <1>5 DEF LagInv, Working

LEMMA LagNext == TypeOK /\ LagInv /\ [Next]_vars => LagInv'
<1> SUFFICES ASSUME TypeOK, LagInv, [Next]_vars
             PROVE  LagInv'
  OBVIOUS
<1>0. /\ tx \in Transaction /\ files \in [File -> Content] /\ latest \in [File -> Version]
      /\ count \in Nat
  BY BoundsAssumption DEF TypeOK
<1>1. CASE Begin
  <2>1. \A f \in File : latest[f].by \in Nat
    BY <1>0 DEF Version
  <2>2. CommitInv'
    BY <1>0, <1>1, <2>1, BeginFields DEF Begin, CommitInv, LagInv
  <2>3. \A f \in File : NotOlder(f, files[f])' /\ latest'[f].by < count'
    BY <1>0, <1>1, <2>1 DEF Begin, LagInv, NotOlder
  <2> QED
    BY <1>0, <1>1, <2>1, <2>2, <2>3, BeginFields DEF Begin, LagInv
<1>2. CASE Save \/ Return
  <2>1. CASE Save
    BY <2>1, <1>0, SaveFields, LagKeeps DEF Save
  <2>2. CASE Return
    BY <2>2, <1>0, AtFields, LagKeeps DEF Return
  <2> QED
    BY <1>2, <2>1, <2>2
<1>3. CASE \E f \in File : SetFile(f) \/ DeleteListing(f)
  BY <1>3, LagSet DEF SetFile, DeleteListing
<1>4. CASE Refuse \/ RemoveFails \/ CommitFails
  <2>1. \A f \in File : NotOlder(f, files[f])'
    BY <1>4 DEF Refuse, RemoveFails, CommitFails, LagInv, NotOlder
  <2> QED
    BY <1>4, <2>1, LagRollBack DEF Refuse, RemoveFails, CommitFails, Working
<1>5. CASE WriteFails
  <2>1. \A f \in File : NotOlder(f, files[f])'
    BY <1>0, <1>5, CutNotOlder DEF WriteFails, LagInv
  <2> QED
    BY <1>5, <2>1, LagRollBack DEF WriteFails, Working
<1>6. CASE UndoFails \/ RollBackRows \/ RunHooks \/ Crash
  <2>1. \A f \in File : NotOlder(f, files[f])'
    <3>1. CASE UNCHANGED files
      BY <1>6, <3>1 DEF UndoFails, RollBackRows, RunHooks, Crash, LagInv, NotOlder
    <3>2. CASE \E g : Cut(g)
      BY <1>0, <1>6, <3>2, CutNotOlder DEF UndoFails, RollBackRows, RunHooks, Crash, LagInv
    <3> QED
      BY <1>6, <3>1, <3>2 DEF UndoFails, RollBackRows, RunHooks, Crash
  <2> QED
    BY <1>6, <2>1, LagIdle DEF UndoFails, RollBackRows, RunHooks, Crash
<1>7. CASE WriteFile
  BY <1>7, LagWrite
<1>8. CASE CommitRows
  BY <1>8, LagCommit
<1>9. CASE Undo
  BY <1>9, LagUndo
<1>10. CASE UNCHANGED vars
  BY <1>10 DEF vars, LagInv, NotOlder, Working, CommitInv, Pending
<1> QED
  BY <1>1, <1>2, <1>3, <1>4, <1>5, <1>6, <1>7, <1>8, <1>9, <1>10 DEF Next

\* Whatever fails, wherever the node stops, no file is older than the tables.
THEOREM FilesNotOlder == Spec => []FilesNeverLag
<1>1. LagInv => FilesNeverLag
  BY DEF LagInv, FilesNeverLag
<1> QED
  BY <1>1, LagInit, LagNext, TypeCorrect, PTL DEF Spec

-----------------------------------------------------------------------------
(* Updates that fail *)

Restorable == File \ Blobs

Restores(f) == \E k \in 1..Len(tx.rollback) : tx.rollback[k].file = f

\* The rollback cache has every restorable file that was written as it was.
RollbackInv ==
  /\ \A j \in 1..Len(tx.rollback) :
       tx.rollback[j].content = tx.before[tx.rollback[j].file]
  /\ tx.at \in {"fn", "commit"} =>
       \A j \in 1..Len(tx.commit) :
         tx.commit[j].file \in Blobs \/ Restores(tx.commit[j].file)
  /\ tx.at = "commit" =>
       \A f \in Restorable : files[f] = tx.before[f] \/ Restores(f)
  /\ tx.at = "undo" =>
       \A f \in Restorable :
         \/ files[f] = tx.before[f] \/ tx.before[f] = None
         \/ \E k \in tx.i..Len(tx.rollback) : tx.rollback[k].file = f

MatchInv ==
  /\ tx.at \in {"idle", "hooks"} => \A f \in Restorable : Kept(f, files[f])
  /\ Working => RollbackInv /\ \A f \in Restorable : Kept(f, tx.before[f])

\* The steps that leave the files and the caches alone.
LEMMA MatchKeeps ==
  ASSUME LagInv, MatchInv, UNCHANGED <<files, latest>>, SameCaches, tx'.i = tx.i,
         \/ tx'.at = tx.at
         \/ tx.at = "fn" /\ tx'.at = "commit"
  PROVE  MatchInv'
BY DEF LagInv, MatchInv, RollbackInv, SameCaches, Kept, Working, Restores

LEMMA MatchRollBack ==
  ASSUME TypeOK, LagInv, MatchInv, RollBack, UNCHANGED <<files, latest>>,
         tx.at \in {"fn", "commit"}
  PROVE  MatchInv'
<1>1. tx'.at = "undo" /\ tx'.i = 1 /\ SameCaches
  BY RollBackFields DEF TypeOK
<1>2. \A f \in Restorable : files[f] = tx.before[f] \/ Restores(f)
  BY DEF LagInv, MatchInv, RollbackInv, Working
<1> QED
  BY <1>1, <1>2 DEF MatchInv, RollbackInv, SameCaches, Kept, Working, Restores

LEMMA MatchSet ==
  ASSUME TypeOK, LagInv, MatchInv, NEW f \in File, NEW c, Cache(f, c)
  PROVE  MatchInv'
<1>0. tx \in Transaction /\ tx.at = "fn" /\ UNCHANGED <<files, latest>>
  BY DEF TypeOK, Cache
<1>1. CASE f \notin Blobs /\ files[f] = Torn
  BY <1>0, <1>1, MatchRollBack DEF Cache
<1>2. CASE ~(f \notin Blobs /\ files[f] = Torn)
  <2>1. /\ tx'.at = "fn" /\ tx'.before = tx.before /\ files = tx.before
        /\ tx'.commit = Append(tx.commit, [file |-> f, content |-> c])
        /\ tx'.rollback = IF f \in Blobs THEN tx.rollback
                          ELSE Append(tx.rollback, [file |-> f, content |-> files[f]])
    BY <1>0, <1>2, CacheFields DEF LagInv
  <2>2. tx.commit \in Seq(Write) /\ tx.rollback \in Seq(Write)
    BY <1>0, TransactionType
  <2>3. /\ \A j \in 1..Len(tx.rollback) :
             tx.rollback[j].content = tx.before[tx.rollback[j].file]
        /\ \A j \in 1..Len(tx.commit) :
             tx.commit[j].file \in Blobs \/ Restores(tx.commit[j].file)
    BY <1>0 DEF MatchInv, RollbackInv, Working
  <2>4. \A j \in 1..Len(tx'.rollback) :
          tx'.rollback[j].content = tx'.before[tx'.rollback[j].file]
    <3>1. CASE f \in Blobs
      BY <3>1, <2>1, <2>3
    <3>2. CASE f \notin Blobs
      BY <3>2, <2>1, <2>2, <2>3
    <3> QED
      BY <3>1, <3>2
  <2>5. \A g : Restores(g) => Restores(g)'
    <3>1. CASE f \in Blobs
      BY <3>1, <2>1 DEF Restores
    <3>2. CASE f \notin Blobs
      BY <3>2, <2>1, <2>2 DEF Restores
    <3> QED
      BY <3>1, <3>2
  <2>6. f \in Blobs \/ Restores(f)'
    <3> SUFFICES ASSUME f \notin Blobs PROVE Restores(f)'
      OBVIOUS
    <3>1. /\ Len(tx'.rollback) = Len(tx.rollback) + 1 /\ Len(tx.rollback) \in Nat
          /\ tx'.rollback[Len(tx.rollback) + 1].file = f
      BY <2>1, <2>2
    <3> QED
      BY <3>1 DEF Restores
  <2>7. ASSUME NEW j \in 1..Len(tx'.commit)
        PROVE  tx'.commit[j].file \in Blobs \/ Restores(tx.commit[j].file)'
    <3>1. CASE j = Len(tx.commit) + 1
      <4>1. tx'.commit[j].file = f
        BY <3>1, <2>1, <2>2
      <4> QED
        BY <4>1, <2>6
    <3>2. CASE j \in 1..Len(tx.commit)
      <4>1. tx'.commit[j] = tx.commit[j]
        BY <3>2, <2>1, <2>2
      <4> QED
        BY <4>1, <3>2, <2>3, <2>5
    <3>3. Len(tx'.commit) = Len(tx.commit) + 1 /\ Len(tx.commit) \in Nat
      BY <2>1, <2>2
    <3> QED
      BY <3>1, <3>2, <3>3
  <2>8. \A g \in Restorable : Kept(g, tx.before[g])'
    BY <1>0, <2>1 DEF MatchInv, Kept, Working
  <2> QED
    BY <2>1, <2>4, <2>7, <2>8 DEF MatchInv, RollbackInv, Working, Restores
<1> QED
  BY <1>1, <1>2

LEMMA MatchWrite == ASSUME TypeOK, MatchInv, WriteFile PROVE MatchInv'
<1> DEFINE w == tx.commit[tx.i]
<1>0. /\ tx \in Transaction /\ tx.at = "commit" /\ files \in [File -> Content]
      /\ files' = [files EXCEPT ![w.file] = w.content] /\ UNCHANGED latest
  BY DEF TypeOK, WriteFile
<1>1. tx'.at = "commit" /\ SameCaches
  BY <1>0, EntryFields DEF WriteFile
<1>2. tx.i \in 1..Len(tx.commit)
  BY <1>0, TransactionType DEF WriteFile
<1>3. w.file \in Blobs \/ Restores(w.file)
  BY <1>0, <1>2 DEF MatchInv, RollbackInv, Working
<1>4. \A f \in Restorable : files'[f] = tx.before[f] \/ Restores(f)
  BY <1>0, <1>3 DEF MatchInv, RollbackInv, Working, Restorable
<1> QED
  BY <1>0, <1>1, <1>4 DEF MatchInv, RollbackInv, SameCaches, Kept, Working, Restores

LEMMA MatchCommit == ASSUME TypeOK, LagInv, MatchInv, CommitRows PROVE MatchInv'
<1>0. /\ tx \in Transaction /\ tx.at = "commit" /\ tx.i > Len(tx.commit)
      /\ UNCHANGED files /\ latest' = tx.next
  BY DEF TypeOK, CommitRows
<1>1. tx'.at = "hooks"
  BY <1>0, AtFields DEF CommitRows
<1>2. ASSUME NEW f \in Restorable
      PROVE  Kept(f, files[f])'
  <2>1. ~Pending(f)
    <3>1. tx.i \in Nat /\ Len(tx.commit) \in Nat
      BY <1>0, TransactionType
    <3> QED
      BY <3>1, <1>0 DEF Pending
  <2>2. \/ files[f] = tx.next[f].content
        \/ tx.next[f] = latest[f] /\ files[f] = tx.before[f]
    BY <2>1, <1>0 DEF LagInv, CommitInv, Restorable
  <2>3. Kept(f, tx.before[f])
    BY <1>0 DEF MatchInv, Working
  <2> QED
    BY <2>2, <2>3, <1>0 DEF Kept
<1> QED
  BY <1>1, <1>2 DEF MatchInv, Working

LEMMA MatchUndo == ASSUME TypeOK, MatchInv, Undo PROVE MatchInv'
<1> DEFINE w == tx.rollback[tx.i]
<1>0. /\ tx \in Transaction /\ tx.at = "undo" /\ files \in [File -> Content]
      /\ files' = [files EXCEPT ![w.file] = Restored(w)] /\ UNCHANGED latest
  BY DEF TypeOK, Undo
<1>1. tx'.at = "undo" /\ tx'.i = tx.i + 1 /\ SameCaches
  BY <1>0, EntryFields DEF Undo
<1>2. tx.i \in 1..Len(tx.rollback)
  BY <1>0, TransactionType DEF Undo
<1>3. RollbackInv /\ \A f \in Restorable : Kept(f, tx.before[f])
  BY <1>0 DEF MatchInv, Working
<1>4. ASSUME NEW f \in Restorable
      PROVE  \/ files'[f] = tx.before[f] \/ tx.before[f] = None
             \/ \E k \in (tx.i + 1)..Len(tx.rollback) : tx.rollback[k].file = f
  <2>1. CASE f = w.file
    <3>1. w.content = tx.before[f]
      BY <2>1, <1>2, <1>3 DEF RollbackInv
    <3> QED
      BY <3>1, <2>1, <1>0 DEF Restored, Restorable
  <2>2. CASE f # w.file
    <3>1. files'[f] = files[f]
      BY <2>2, <1>0 DEF Restorable
    <3>2. \/ files[f] = tx.before[f] \/ tx.before[f] = None
          \/ \E k \in tx.i..Len(tx.rollback) : tx.rollback[k].file = f
      BY <1>0, <1>3 DEF RollbackInv
    <3>3. ASSUME NEW k \in tx.i..Len(tx.rollback), tx.rollback[k].file = f
          PROVE  k \in (tx.i + 1)..Len(tx.rollback)
      BY <3>3, <2>2, <1>2
    <3> QED
      BY <3>1, <3>2, <3>3
  <2> QED
    BY <2>1, <2>2
<1> QED
  BY <1>0, <1>1, <1>3, <1>4 DEF MatchInv, RollbackInv, SameCaches, Kept, Working, Restores

LEMMA MatchNext ==
  TypeOK /\ LagInv /\ MatchInv /\ [Next]_vars /\ errors' = 0 /\ crashes' = 0 => MatchInv'
<1> SUFFICES ASSUME TypeOK, LagInv, MatchInv, [Next]_vars, errors' = 0, crashes' = 0
             PROVE  MatchInv'
  OBVIOUS
<1>0. tx \in Transaction /\ errors \in Nat /\ crashes \in Nat
  BY BoundsAssumption DEF TypeOK
<1>1. CASE Begin
  BY <1>1, BeginFields DEF Begin, MatchInv, RollbackInv, Kept, Working
<1>2. CASE Save \/ Return
  <2>1. CASE Save
    BY <2>1, <1>0, SaveFields, MatchKeeps DEF Save
  <2>2. CASE Return
    BY <2>2, <1>0, AtFields, MatchKeeps DEF Return
  <2> QED
    BY <1>2, <2>1, <2>2
<1>3. CASE \E f \in File : SetFile(f) \/ DeleteListing(f)
  BY <1>3, MatchSet DEF SetFile, DeleteListing
<1>4. CASE Refuse \/ RemoveFails \/ CommitFails
  BY <1>4, MatchRollBack DEF Refuse, RemoveFails, CommitFails
<1>5. CASE WriteFails \/ UndoFails \/ Crash
  BY <1>0, <1>5 DEF WriteFails, UndoFails, Crash
<1>6. CASE RunHooks
  BY <1>6 DEF RunHooks, MatchInv, Idle, Kept, Working
<1>7. CASE RollBackRows
  <2>1. tx.i \in Nat /\ Len(tx.rollback) \in Nat
    BY <1>0, TransactionType
  <2>2. ASSUME NEW f \in Restorable PROVE Kept(f, files[f])
    <3>1. files[f] = tx.before[f] \/ tx.before[f] = None
      BY <1>7, <2>1 DEF RollBackRows, MatchInv, RollbackInv, Working
    <3>2. Kept(f, tx.before[f])
      BY <1>7 DEF RollBackRows, MatchInv, Working
    <3> QED
      BY <3>1, <3>2 DEF Kept
  <2> QED
    BY <1>7, <2>2 DEF RollBackRows, MatchInv, Idle, Kept, Working
<1>8. CASE WriteFile
  BY <1>8, MatchWrite
<1>9. CASE CommitRows
  BY <1>9, MatchCommit
<1>10. CASE Undo
  BY <1>10, MatchUndo
<1>11. CASE UNCHANGED vars
  BY <1>11 DEF vars, MatchInv, RollbackInv, Kept, Working, Restores
<1> QED
  BY <1>1, <1>2, <1>3, <1>4, <1>5, <1>6, <1>7, <1>8, <1>9, <1>10, <1>11 DEF Next

\* Disk errors and crashes are counted up.
LEMMA FailuresNext ==
  TypeOK /\ [Next]_vars /\ errors' = 0 /\ crashes' = 0 => errors = 0 /\ crashes = 0
<1> SUFFICES ASSUME TypeOK, [Next]_vars, errors' = 0, crashes' = 0
             PROVE  errors = 0 /\ crashes = 0
  OBVIOUS
<1>0. errors \in Nat /\ crashes \in Nat
  BY BoundsAssumption DEF TypeOK
<1>1. CASE WriteFails \/ UndoFails
  BY <1>0, <1>1 DEF WriteFails, UndoFails
<1>2. CASE Crash
  BY <1>0, <1>2 DEF Crash
<1>3. CASE \E f \in File : SetFile(f) \/ DeleteListing(f)
  BY <1>3 DEF SetFile, DeleteListing, Cache
<1>4. CASE Begin \/ Save \/ Refuse \/ Return \/ WriteFile \/ RemoveFails
  BY <1>4 DEF Begin, Save, Refuse, Return, WriteFile, RemoveFails
<1>5. CASE CommitRows \/ CommitFails \/ RunHooks \/ Undo \/ RollBackRows \/ UNCHANGED vars
  BY <1>5 DEF CommitRows, CommitFails, RunHooks, Undo, RollBackRows, vars
<1> QED
  BY <1>1, <1>2, <1>3, <1>4, <1>5 DEF Next

SafeInv == errors = 0 /\ crashes = 0 => MatchInv

\* Updates that fail without a disk error or a crash leave the restorable files as
\* the last committed update that wrote them did.
THEOREM FilesMatch == Spec => []FilesMatchRows
<1>1. Init => SafeInv
  BY DEF Init, SafeInv, MatchInv, Idle, Missing, Kept, Working, Restorable
<1>2. TypeOK /\ LagInv /\ SafeInv /\ [Next]_vars => SafeInv'
  BY MatchNext, FailuresNext DEF SafeInv
<1>3. SafeInv => FilesMatchRows
  BY DEF SafeInv, MatchInv, FilesMatchRows, Restorable
<1> QED
  BY <1>1, <1>2, <1>3, LagInit, LagNext, TypeCorrect, PTL DEF Spec

=============================================================================
