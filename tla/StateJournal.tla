---------------------------- MODULE StateJournal ----------------------------
(***************************************************************************)
(* StateDB: live objects in front of the account trie, the journal that    *)
(* undoes changes back to a snapshot, and Finalise, Commit and Copy, which *)
(* decide by what the journal calls dirty what reaches the trie.  One      *)
(* storage slot and one possible code per account.                         *)
(***************************************************************************)
EXTENDS Integers, Sequences, FiniteSets, SequencesExt

CONSTANTS
  Addresses,
  StateOps   \* bound: operations

ASSUME StateAssumption == StateOps \in Nat

Nil == [nil |-> TRUE]
Unset == 2    \* a slot that is not in a storage cache, a code that cannot be read; values are 0 and 1

VARIABLES
  sdb,     \* the StateDB
  saved,   \* what could be observed when each valid snapshot was taken
  stateOps

stateVars == <<sdb, saved, stateOps>>

\* newObject
NewObject(acct) ==
  [nonce |-> acct.nonce, balance |-> acct.balance, code |-> acct.code, slot |-> acct.slot,
   cached |-> Unset, dirtySlot |-> Unset, dirtyCode |-> FALSE, suicided |-> FALSE, deleted |-> FALSE]

Blank == [nonce |-> 0, balance |-> 0, code |-> 0, slot |-> 0]

\* getStateObject, which also puts what it finds in the trie into the live set.
Loaded(s, a) ==
  IF s.objects[a] = Nil /\ s.trie[a] # Nil THEN [s EXCEPT !.objects[a] = NewObject(s.trie[a])] ELSE s
Exists(s, a) == LET o == Loaded(s, a).objects[a] IN o # Nil /\ (o = Nil \/ ~ o.deleted)

SlotOf(o) == IF o.cached = Unset THEN o.slot ELSE o.cached
EmptyObject(o) == o.nonce = 0 /\ o.balance = 0 /\ o.code = 0

\* Code: in memory since SetCode, or read from the database, Unset if it is not there.
CodeOf(s, o) == IF o.dirtyCode \/ o.code \in s.codes \cup {0} THEN o.code ELSE Unset

\* What a caller can observe of the state.
View(s) ==
  [refund |-> s.refund, logs |-> s.logs,
   accounts |-> [a \in Addresses |->
     IF ~ Exists(s, a) THEN Nil
     ELSE LET o == Loaded(s, a).objects[a]
          IN [nonce |-> o.nonce, balance |-> o.balance, code |-> CodeOf(s, o), slot |-> SlotOf(o), suicided |-> o.suicided]]]

StateInit ==
  /\ \E t \in [Addresses -> {Nil, Blank, [Blank EXCEPT !.balance = 1],
                             [nonce |-> 1, balance |-> 0, code |-> 1, slot |-> 1]}] :
       sdb = [objects |-> [a \in Addresses |-> Nil], trie |-> t, dirty |-> {}, journal |-> <<>>,
              revisions |-> <<>>, refund |-> 0, logs |-> 0,
              codes |-> IF \E a \in Addresses : t[a] # Nil /\ t[a].code = 1 THEN {1} ELSE {}]
  /\ saved = <<>> /\ stateOps = 0
-----------------------------------------------------------------------------
Entry(kind, a, prev) == [kind |-> kind, account |-> a, prev |-> prev]
Log(s, e) == [s EXCEPT !.journal = Append(@, e)]

\* A variant in which an object that replaces another is taken for a new one.
createObjectNew(s, a) == Log([s EXCEPT !.objects[a] = NewObject(Blank)], Entry("create", a, Nil))

createObject(s, a) ==
  LET l == Loaded(s, a)
      e == IF Exists(s, a) THEN Entry("reset", a, l.objects[a]) ELSE Entry("create", a, Nil)
  IN Log([l EXCEPT !.objects[a] = NewObject(Blank)], e)

GetOrNew(s, a) == IF Exists(s, a) THEN Loaded(s, a) ELSE createObject(s, a)

SetBalance(s, a, v) ==
  LET l == GetOrNew(s, a)
  IN Log([l EXCEPT !.objects[a].balance = v], Entry("balance", a, l.objects[a].balance))

\* Adding nothing to an empty account touches it.
AddBalance(s, a, v) ==
  LET l == GetOrNew(s, a)
      o == l.objects[a]
  IN IF v > 0 THEN SetBalance(l, a, o.balance + v)
     ELSE IF EmptyObject(o) THEN Log(l, Entry("touch", a, Nil)) ELSE l

SetNonce(s, a, n) ==
  LET l == GetOrNew(s, a)
  IN Log([l EXCEPT !.objects[a].nonce = n], Entry("nonce", a, l.objects[a].nonce))

SetCode(s, a, c) ==
  LET l == GetOrNew(s, a)
  IN Log([l EXCEPT !.objects[a].code = c, !.objects[a].dirtyCode = TRUE], Entry("code", a, l.objects[a].code))

\* GetState fills the cache of the object before the entry is made.
SetState(s, a, v) ==
  LET l == GetOrNew(s, a)
  IN Log([l EXCEPT !.objects[a].cached = v, !.objects[a].dirtySlot = v], Entry("slot", a, SlotOf(l.objects[a])))

Suicide(s, a) ==
  IF ~ Exists(s, a) THEN s
  ELSE LET l == Loaded(s, a)
           o == l.objects[a]
       IN Log([l EXCEPT !.objects[a].suicided = TRUE, !.objects[a].balance = 0],
              Entry("suicide", a, [suicided |-> o.suicided, balance |-> o.balance]))

\* CreateAccount carries the balance over without an entry; the EVM then sets
\* the nonce of the new contract.
CreateContract(s, a) ==
  LET l == Loaded(s, a)
      carried == IF Exists(s, a) THEN l.objects[a].balance ELSE 0
  IN SetNonce([createObject(s, a) EXCEPT !.objects[a].balance = carried], a, 1)

AddRefund(s) == Log([s EXCEPT !.refund = @ + 1], Entry("refund", Nil, s.refund))
AddLog(s) == Log([s EXCEPT !.logs = @ + 1], Entry("log", Nil, Nil))
-----------------------------------------------------------------------------
Undo(s, e) ==
  LET a == e.account
      l == Loaded(s, a)
  IN CASE e.kind = "create" -> [s EXCEPT !.objects[a] = Nil, !.dirty = @ \ {a}]
       [] e.kind = "reset" -> [s EXCEPT !.objects[a] = e.prev]
       [] e.kind = "suicide" -> IF ~ Exists(s, a) THEN l
                                ELSE [l EXCEPT !.objects[a].suicided = e.prev.suicided, !.objects[a].balance = e.prev.balance]
       [] e.kind = "balance" -> [l EXCEPT !.objects[a].balance = e.prev]
       [] e.kind = "nonce" -> [l EXCEPT !.objects[a].nonce = e.prev]
       [] e.kind = "code" -> [l EXCEPT !.objects[a].code = e.prev, !.objects[a].dirtyCode = TRUE]
       [] e.kind = "slot" -> [l EXCEPT !.objects[a].cached = e.prev, !.objects[a].dirtySlot = e.prev]
       [] e.kind = "refund" -> [s EXCEPT !.refund = e.prev]
       [] e.kind = "log" -> [s EXCEPT !.logs = @ - 1]
       [] e.kind = "touch" -> s

\* The journal's dirties: accounts an entry counts for.
Dirties(s) ==
  {s.journal[i].account : i \in {j \in 1..Len(s.journal) : s.journal[j].kind \notin {"reset", "refund", "log"}}}

\* journal.revert down to the length the i-th valid revision recorded.
RevertTo(s, i) ==
  LET n == s.revisions[i]
      undone == FoldLeft(Undo, s, Reverse(SubSeq(s.journal, n + 1, Len(s.journal))))
  IN [undone EXCEPT !.journal = SubSeq(@, 1, n), !.revisions = SubSeq(@, 1, i - 1)]
-----------------------------------------------------------------------------
Cleared(s) == [s EXCEPT !.journal = <<>>, !.revisions = <<>>, !.refund = 0]

\* A variant that does not write the storage.
FlushedStale(o) == [o EXCEPT !.dirtySlot = Unset]

\* updateTrie and updateRoot, then the object goes into the account trie.
Flushed(o) == [o EXCEPT !.slot = IF o.dirtySlot = Unset THEN @ ELSE o.dirtySlot, !.dirtySlot = Unset]
InTrie(o) == [nonce |-> o.nonce, balance |-> o.balance, code |-> o.code, slot |-> Flushed(o).slot]

Finalise(s) ==
  LET hit == {a \in Dirties(s) : s.objects[a] # Nil}
      gone == {a \in hit : s.objects[a].suicided \/ EmptyObject(s.objects[a])}
  IN Cleared([s EXCEPT !.objects = [a \in Addresses |-> CASE a \in gone -> [@[a] EXCEPT !.deleted = TRUE]
                                                         [] a \in hit \ gone -> Flushed(@[a])
                                                         [] OTHER -> @[a]],
                       !.trie = [a \in Addresses |-> CASE a \in gone -> Nil
                                                       [] a \in hit \ gone -> InTrie(s.objects[a])
                                                       [] OTHER -> @[a]],
                       !.dirty = @ \cup hit])

\* Commit after Finalise, as a block is written: code reaches the database.
Commit(s) ==
  LET dirty == s.dirty \cup Dirties(s)
      some == {a \in Addresses : s.objects[a] # Nil}
      gone == {a \in some : s.objects[a].suicided \/ (a \in dirty /\ EmptyObject(s.objects[a]))}
      kept == (some \cap dirty) \ gone
  IN Cleared([s EXCEPT !.objects = [a \in Addresses |-> CASE a \in gone -> [@[a] EXCEPT !.deleted = TRUE]
                                                         [] a \in kept -> [Flushed(@[a]) EXCEPT !.dirtyCode = FALSE]
                                                         [] OTHER -> @[a]],
                       !.trie = [a \in Addresses |-> CASE a \in gone -> Nil
                                                       [] a \in kept -> InTrie(s.objects[a])
                                                       [] OTHER -> @[a]],
                       !.codes = @ \cup {s.objects[a].code : a \in {b \in kept : s.objects[b].dirtyCode}},
                       !.dirty = @ \ some])

\* deepCopy keeps only the unwritten part of the storage cache.
Copy(s) ==
  LET copied == {a \in Dirties(s) \cup s.dirty : s.objects[a] # Nil}
  IN [s EXCEPT !.objects = [a \in Addresses |-> IF a \in copied THEN [s.objects[a] EXCEPT !.cached = s.objects[a].dirtySlot] ELSE Nil],
               !.dirty = copied, !.journal = <<>>, !.revisions = <<>>]
-----------------------------------------------------------------------------
\* One operation of a transaction.
Change(s, t) == stateOps < StateOps /\ stateOps' = stateOps + 1 /\ sdb' = t /\ t # s

Operate(a) ==
  /\ \/ \E v \in 0..1 : (Exists(sdb, a) => Loaded(sdb, a).objects[a].balance + v <= 1) /\ Change(sdb, AddBalance(sdb, a, v))
     \/ Exists(sdb, a) /\ Loaded(sdb, a).objects[a].balance = 1 /\ Change(sdb, SetBalance(sdb, a, 0))
     \/ Change(sdb, SetNonce(sdb, a, 1))
     \/ \E v \in 0..1 : Exists(sdb, a) /\ Change(sdb, SetState(sdb, a, v))
     \/ Exists(sdb, a) /\ Loaded(sdb, a).objects[a].nonce = 1 /\ Change(sdb, SetCode(sdb, a, 1))
     \/ Change(sdb, Suicide(sdb, a))
     \/ (Exists(sdb, a) => Loaded(sdb, a).objects[a].nonce = 0 /\ Loaded(sdb, a).objects[a].code = 0)
          /\ Change(sdb, CreateContract(sdb, a))
     \/ sdb.refund = 0 /\ Change(sdb, AddRefund(sdb))
     \/ sdb.logs = 0 /\ Change(sdb, AddLog(sdb))
  /\ UNCHANGED saved

Snapshot ==
  /\ Len(sdb.revisions) < 2
  /\ Change(sdb, [sdb EXCEPT !.revisions = Append(@, Len(sdb.journal))])
  /\ saved' = Append(saved, View(sdb))

RevertToSnapshot(i) ==
  /\ i \in 1..Len(sdb.revisions)
  /\ sdb' = RevertTo(sdb, i)
  /\ saved' = SubSeq(saved, 1, i - 1)
  /\ UNCHANGED stateOps

EndTransaction == Change(sdb, Finalise(sdb)) /\ saved' = <<>>
CommitState == Change(sdb, Commit(Finalise(sdb))) /\ saved' = <<>>
\* The miner copies its state between transactions.
CopyState == sdb.journal = <<>> /\ Change(sdb, Copy(sdb)) /\ saved' = <<>>

StateNext ==
  \/ \E a \in Addresses : Operate(a)
  \/ Snapshot \/ \E i \in 1..2 : RevertToSnapshot(i)
  \/ EndTransaction \/ CommitState \/ CopyState

StateSpec == StateInit /\ [][StateNext]_stateVars
-----------------------------------------------------------------------------
\* Reverting to any snapshot that is still valid gives back what was observed
\* when it was taken, whatever calls, creations and suicides came between.
RevertExact == \A i \in 1..Len(saved) : View(RevertTo(sdb, i)) = saved[i]

\* No change gets lost: at the end of a transaction the trie holds what can be
\* observed and nothing is left behind in a live object that nobody calls dirty;
\* after Commit the code of every account is in the database; a copy (the
\* miner's pending state) shows the same state as the original.
ChangesKept ==
  LET s == Finalise(sdb)
      c == Commit(s)
  IN /\ \A a \in Addresses :
          IF Exists(s, a)
          THEN s.trie[a] = InTrie(Loaded(s, a).objects[a]) /\ SlotOf(Loaded(s, a).objects[a]) = s.trie[a].slot
          ELSE s.trie[a] = Nil
     /\ \A a \in Addresses : c.trie[a] # Nil => c.trie[a].code \in c.codes \cup {0}
     /\ View(Copy(sdb)) = View(sdb)
=============================================================================
