------------------------------- MODULE TxPool -------------------------------
(***************************************************************************)
(* The transaction pool: executable (pending) and future (queued)          *)
(* transactions per account, the price index over all of them, the limits  *)
(* that evict transactions, resets on a new head or a reorganisation, and  *)
(* the journal of local transactions.  The pool's mutex makes every call   *)
(* one step.  A pool is a record; an operation is a function on pools.     *)
(***************************************************************************)
EXTENDS Integers, Sequences, FiniteSets, SequencesExt, FiniteSetsExt, TLC

CONSTANTS
  Accounts, Nonces, Prices,
  Blocks,        \* block tree: block -> [parent, txs, funds]; 0 is the root's parent
  AccountSlots, GlobalSlots, AccountQueue, GlobalQueue, PriceBump,
  PoolOps        \* bound: calls of the pool

ASSUME PoolAssumption ==
  /\ Nonces \subseteq Nat /\ Prices \subseteq Nat \ {0} /\ PoolOps \in Nat
  /\ {AccountSlots, GlobalSlots, AccountQueue, GlobalQueue, PriceBump} \subseteq Nat

VARIABLES
  pool,      \* [pending, queue, all, items, stales, nonces, locals, journal]
  chainHead, \* the head block of the last reset
  gasPrice,  \* the least price accepted from remote accounts
  poolOps    \* calls so far

poolVars == <<pool, chainHead, gasPrice, poolOps>>

\* The gas limit is 1 and the value 0: the cost of a transaction is its price.
Txs == [from : Accounts, nonce : Nonces, price : Prices]

Of(list, a) == {t \in list : t.from = a}
At(list, tx) == {t \in list : t.from = tx.from /\ t.nonce = tx.nonce}
Sorted(set, Before(_, _)) == SortSeq(FoldSet(LAMBDA t, s : Append(s, t), <<>>, set), Before)
ByNonce(list) == Sorted(list, LAMBDA t, u : t.nonce < u.nonce)

Ancestors(b) == {c \in DOMAIN Blocks : c <= b /\ \E n \in 0 .. Cardinality(DOMAIN Blocks) :
                   FoldLeft(LAMBDA d, i : IF d = 0 THEN 0 ELSE Blocks[d].parent, b,
                            [i \in 1 .. n |-> i]) = c}
Mined(b) == UNION {Blocks[c].txs : c \in Ancestors(b)}
StateNonce(b, a) == Cardinality(Of(Mined(b), a))
Balance(b, a) == Blocks[b].funds[a]
-----------------------------------------------------------------------------
(* The price index: a heap, kept here as a sequence in the heap's order.    *)

Cheaper(t, u) == t.price < u.price \/ (t.price = u.price /\ t.nonce > u.nonce)

Put(p, tx) == [p EXCEPT !.items = SortSeq(Append(@, tx), Cheaper)]

\* A transaction has left the pool: too many stale entries rebuild the heap.
Removed(p) ==
  IF p.stales + 1 <= Len(p.items) \div 4 THEN [p EXCEPT !.stales = @ + 1]
  ELSE [p EXCEPT !.stales = 0, !.items = Sorted(p.all, Cheaper)]

\* delete(pool.all, hash) and priced.Removed().
Forget(p, txs) ==
  FoldSet(LAMBDA t, q : Removed([q EXCEPT !.all = @ \ {t}]), p, txs)

Stale(p, i) == p.items[i] \notin p.all
Droppable(p, i) == ~ Stale(p, i) /\ p.items[i].from \notin p.locals

\* The first n entries leave the heap; live local ones, and a last one that
\* stopped the loop, are pushed back.
PopItems(p, n, stop) ==
  LET saved == {i \in 1 .. n : (~ Stale(p, i) /\ p.items[i].from \in p.locals) \/ i = stop}
      Keeps(i) == i > n \/ i \in saved
  IN [p EXCEPT !.items = LET ids == Sorted({i \in 1 .. Len(@) : Keeps(i)}, <)
                         IN [j \in 1 .. Len(ids) |-> @[ids[j]]],
               !.stales = @ - Cardinality({i \in 1 .. n : Stale(p, i)})]

\* How far Discard pops: until count droppable entries are found.
DiscardEnd(p, count) ==
  Min({n \in 0 .. Len(p.items) :
         \/ Cardinality({i \in 1 .. n : Droppable(p, i)}) = count
         \/ n = Len(p.items)})

\* How far Cap and Underpriced pop: up to the first live entry that is not
\* cheaper than the price, or the first live entry of all.
FirstLive(p, price) ==
  Min({i \in 1 .. Len(p.items) : ~ Stale(p, i) /\ p.items[i].price >= price}
        \cup {Len(p.items) + 1})
-----------------------------------------------------------------------------
(* Lists of an account: pending lists are strict, queues may have gaps.     *)

\* txList.Add refuses a replacement that is not dearer by the price bump.
Accepts(list, tx) ==
  \A old \in At(list, tx) :
    old.price < tx.price /\ (old.price * (100 + PriceBump)) \div 100 <= tx.price

\* The transactions beyond the n lowest nonces of a list.
Cap(list, n) == {t \in list : Cardinality({u \in list : u.nonce <= t.nonce}) > n}

\* The run of nonces from the least one, unless that is beyond start.
Ready(list, start) ==
  {t \in list : \E low \in list :
     /\ low.nonce <= start /\ low.nonce <= t.nonce
     /\ \A n \in low.nonce .. t.nonce : \E u \in list : u.nonce = n
     /\ \A u \in list : low.nonce <= u.nonce}

After(list, txs) == {t \in list \ txs : \E u \in txs : u.nonce < t.nonce}
-----------------------------------------------------------------------------
\* The transaction is in pool.all and in the price heap, if it was not before.
Enter(p, tx) == IF tx \in p.all THEN p ELSE Put([p EXCEPT !.all = @ \cup {tx}], tx)

\* A variant that keeps track of the transaction that was replaced.
enqueueTxKeeps(p, tx) ==
  IF ~ Accepts(p.queue, tx) THEN p
  ELSE Enter([p EXCEPT !.queue = (@ \ At(@, tx)) \cup {tx}], tx)

enqueueTx(p, tx) ==
  IF ~ Accepts(p.queue, tx) THEN p
  ELSE Enter([Forget(p, At(p.queue, tx)) EXCEPT !.queue = (@ \ At(@, tx)) \cup {tx}], tx)

promoteTx(p, tx) ==
  IF ~ Accepts(p.pending, tx) THEN Forget(p, {tx})
  ELSE LET old == At(p.pending, tx)
       IN [Forget(p, old) EXCEPT !.pending = (@ \ old) \cup {tx},
                                 !.nonces[tx.from] = tx.nonce + 1]

\* Removes from the lists, by nonce; later pending transactions go back to the
\* queue and the account's next nonce goes down.
Unlist(p, tx) ==
  LET hit == At(p.pending, tx)
      invalids == After(Of(p.pending, tx.from), hit)
  IN IF hit = {} THEN [p EXCEPT !.queue = @ \ At(@, tx)]
     ELSE [FoldLeft(enqueueTx, [p EXCEPT !.pending = @ \ (hit \cup invalids)], ByNonce(invalids))
             EXCEPT !.nonces[tx.from] = IF @ > tx.nonce THEN tx.nonce ELSE @]

\* outofbound: the price heap has not been told yet.
removeTx(p, tx, outofbound) ==
  IF tx \notin p.all THEN p
  ELSE Unlist(IF outofbound THEN Removed([p EXCEPT !.all = @ \ {tx}])
              ELSE [p EXCEPT !.all = @ \ {tx}], tx)

removeAll(p, txs, outofbound) ==
  FoldLeft(LAMBDA q, t : removeTx(q, t, outofbound), p, ByNonce(txs))
-----------------------------------------------------------------------------
(* promoteExecutables                                                       *)

DropQueued(p, txs) == [Forget(p, txs) EXCEPT !.queue = @ \ txs]

PromoteReady(p, ready) == FoldLeft(promoteTx, [p EXCEPT !.queue = @ \ ready], ByNonce(ready))

CapAccount(p, a) ==
  DropQueued(p, IF a \in p.locals THEN {} ELSE Cap(Of(p.queue, a), AccountQueue))

\* Of one account: what is used or cannot be paid goes, what is executable is
\* promoted, and the queue is cut to its limit.
PromoteAccount(p, b, a) ==
  LET drops == {t \in Of(p.queue, a) : t.nonce < StateNonce(b, a) \/ t.price > Balance(b, a)}
  IN CapAccount(PromoteReady(DropQueued(p, drops),
                             Ready(Of(p.queue, a) \ drops, p.nonces[a])), a)

Size(p, a) == Cardinality(Of(p.pending, a))

\* Each of these accounts loses its last pending transaction.
Shrink(p, addrs) ==
  FoldLeft(LAMBDA q, a :
    LET last == Cap(Of(q.pending, a), Size(q, a) - 1)
    IN [Forget(q, last) EXCEPT !.pending = @ \ last,
                               !.nonces[a] = Min({@} \cup {t.nonce : t \in last})],
    p, addrs)

\* The k largest accounts are cut to the size of the next one, then all of them
\* to AccountSlots, until the pending limit is met.
RECURSIVE Equalise(_, _, _)
Equalise(p, spammers, k) ==
  IF Cardinality(p.pending) <= GlobalSlots \/ spammers = <<>> THEN p
  ELSE IF k < Len(spammers) /\ (k = 0 \/ Size(p, spammers[k]) <= Size(p, spammers[k + 1]))
  THEN Equalise(p, spammers, k + 1)
  ELSE IF k = Len(spammers) /\ Size(p, spammers[k]) <= AccountSlots THEN p
  ELSE Equalise(Shrink(p, SubSeq(spammers, 1, k)), spammers, k)

\* A variant that spares nobody.
CapPendingAll(p, order) ==
  Equalise(p, SortSeq(SelectSeq(order, LAMBDA a : Size(p, a) > AccountSlots),
                      LAMBDA a, c : Size(p, a) > Size(p, c)), 0)

CapPending(p, order) ==
  Equalise(p, SortSeq(SelectSeq(order, LAMBDA a : a \notin p.locals /\ Size(p, a) > AccountSlots),
                      LAMBDA a, c : Size(p, a) > Size(p, c)), 0)

\* Accounts lose their last queued transactions until the queue limit is met.
CapQueue(p, order) ==
  FoldLeft(LAMBDA q, a :
    LET list == Of(q.queue, a)
        drop == Cardinality(q.queue) - GlobalQueue
    IN IF Cardinality(q.queue) <= GlobalQueue THEN q
       ELSE removeAll(q, IF Cardinality(list) <= drop THEN list
                         ELSE Cap(list, Cardinality(list) - drop), TRUE),
    p, SelectSeq(order, LAMBDA a : a \notin p.locals))

\* order: the iteration order of maps and of accounts with the same heartbeat.
promoteExecutables(p, b, accounts, order) ==
  CapQueue(CapPending(FoldLeft(LAMBDA q, a : PromoteAccount(q, b, a), p,
                               SelectSeq(order, LAMBDA a : a \in accounts)), order), order)

demoteUnexecutables(p, b, order) ==
  FoldLeft(LAMBDA q, a :
    LET list == Of(q.pending, a)
        old == {t \in list : t.nonce < StateNonce(b, a)}
        drops == {t \in list \ old : t.price > Balance(b, a)}
        invalids == After(list \ old, drops)
        rest == list \ (old \cup drops \cup invalids)
        gapped == IF \E t \in rest : t.nonce = StateNonce(b, a) THEN {} ELSE rest
    IN FoldLeft(enqueueTx,
                [Forget(q, old \cup drops) EXCEPT !.pending = (@ \ list) \cup (rest \ gapped)],
                ByNonce(invalids \cup gapped)),
    p, order)
-----------------------------------------------------------------------------
(* add and its callers                                                      *)

validateTx(p, b, price, tx, local) ==
  /\ local \/ tx.from \in p.locals \/ price <= tx.price
  /\ StateNonce(b, tx.from) <= tx.nonce
  /\ tx.price <= Balance(b, tx.from)

Full(p) == Cardinality(p.all) >= GlobalSlots + GlobalQueue

\* priced.Underpriced also throws away the stale entries it meets.
Underpriced(p, tx) ==
  /\ tx.from \notin p.locals
  /\ FirstLive(p, 0) <= Len(p.items)
  /\ p.items[FirstLive(p, 0)].price >= tx.price

Unstale(p) == PopItems(p, FirstLive(p, 0) - 1, 0)

\* The cheapest go until there is room for one more.
Discard(p) ==
  LET end == DiscardEnd(p, Cardinality(p.all) - (GlobalSlots + GlobalQueue - 1))
  IN removeAll(PopItems(p, end, 0), {p.items[i] : i \in {j \in 1 .. end : Droppable(p, j)}}, FALSE)

MakeRoom(p, tx, local) ==
  IF ~ Full(p) THEN p ELSE Discard(IF local \/ tx.from \in p.locals THEN p ELSE Unstale(p))

JournalTx(p, tx) ==
  IF tx.from \in p.locals THEN [p EXCEPT !.journal = @ \cup {tx}] ELSE p

\* A pending transaction of the same nonce is replaced, if the price is right.
ReplacePending(p, tx) ==
  LET old == At(p.pending, tx)
  IN IF ~ Accepts(old, tx) THEN p
     ELSE JournalTx([Put([Forget(p, old) EXCEPT !.all = @ \cup {tx}], tx)
                       EXCEPT !.pending = (@ \ old) \cup {tx}], tx)

EnqueueNew(p, tx, local) ==
  IF ~ Accepts(p.queue, tx) THEN p
  ELSE JournalTx([enqueueTx(p, tx) EXCEPT !.locals = @ \cup IF local THEN {tx.from} ELSE {}], tx)

\* The rest of add, when there is room; a new transaction in the queue makes the
\* account dirty: its queue has to be looked at.
Insert(p, dirty, tx, local) ==
  IF At(p.pending, tx) # {} THEN [pool |-> ReplacePending(p, tx), dirty |-> dirty]
  ELSE [pool |-> EnqueueNew(p, tx, local),
        dirty |-> dirty \cup IF At(p.queue, tx) = {} THEN {tx.from} ELSE {}]

\* r: the pool and the accounts that are dirty so far.
add(r, b, price, tx, local) ==
  IF tx \in r.pool.all \/ ~ validateTx(r.pool, b, price, tx, local) THEN r
  ELSE IF Full(r.pool) /\ ~ local /\ Underpriced(r.pool, tx)
  THEN [r EXCEPT !.pool = Unstale(@)]
  ELSE Insert(MakeRoom(r.pool, tx, local), r.dirty, tx, local)

PromoteDirty(r, b, order) ==
  IF r.dirty = {} THEN r.pool ELSE promoteExecutables(r.pool, b, r.dirty, order)

addTxsLocked(p, b, price, txs, local, order) ==
  PromoteDirty(FoldLeft(LAMBDA r, t : add(r, b, price, t, local),
                        [pool |-> p, dirty |-> {}], txs), b, order)

\* The next nonces follow the pending lists, and every queue is looked at.
ResetTail(p, new, order) ==
  promoteExecutables(
    [p EXCEPT !.nonces = [a \in Accounts |->
       IF Size(p, a) = 0 THEN @[a] ELSE Max({t.nonce : t \in Of(p.pending, a)}) + 1]],
    new, {t.from : t \in p.queue}, order)

\* old = 0 when there is no old head (NewTxPool).
Reset(p, old, new, price, order) ==
  LET reinject == IF old = 0 \/ old = Blocks[new].parent THEN {} ELSE Mined(old) \ Mined(new)
      fresh == [p EXCEPT !.nonces = [a \in Accounts |-> StateNonce(new, a)]]
      readded == addTxsLocked(fresh, new, price, Sorted(reinject, LAMBDA t, u : t.nonce > u.nonce),
                              FALSE, order)
  IN ResetTail(demoteUnexecutables(readded, new, order), new, order)
-----------------------------------------------------------------------------
Orders == {[i \in 1 .. Cardinality(Accounts) |-> f[i]] :
             f \in {g \in [1 .. Cardinality(Accounts) -> Accounts] : IsInjective(g)}}

\* The root block is 1.
PoolInit ==
  /\ pool = [pending |-> {}, queue |-> {}, all |-> {}, items |-> <<>>, stales |-> 0,
             nonces |-> [a \in Accounts |-> StateNonce(1, a)], locals |-> {}, journal |-> {}]
  /\ chainHead = 1 /\ gasPrice = Min(Prices) /\ poolOps = 0

Call(p) == poolOps < PoolOps /\ poolOps' = poolOps + 1 /\ pool' = p

\* AddLocal and AddRemote.
AddTx(tx, local) ==
  /\ \E order \in Orders :
       Call(addTxsLocked(pool, chainHead, gasPrice, <<tx>>, local, order))
  /\ UNCHANGED <<chainHead, gasPrice>>

\* The worker throws out a transaction that the engine does not allow.
RemoveTx(tx) ==
  /\ tx \in pool.pending
  /\ Call(removeTx(pool, tx, TRUE))
  /\ UNCHANGED <<chainHead, gasPrice>>

SetGasPrice(price) ==
  /\ LET end == FirstLive(pool, price)
         n == IF end > Len(pool.items) THEN Len(pool.items) ELSE end
         drop == {pool.items[i] : i \in {j \in 1 .. n : Droppable(pool, j) /\ j # end}}
     IN Call(removeAll(PopItems(pool, n, end), drop, FALSE))
  /\ gasPrice' = price
  /\ UNCHANGED chainHead

\* loop: a chain head event.
NewHead(b) ==
  /\ b # chainHead
  /\ \E order \in Orders : Call(Reset(pool, chainHead, b, gasPrice, order))
  /\ chainHead' = b
  /\ UNCHANGED gasPrice

\* loop: the queue of a remote account has been there for too long.
Evict(a) ==
  /\ a \notin pool.locals /\ Of(pool.queue, a) # {}
  /\ Call(removeAll(pool, Of(pool.queue, a), TRUE))
  /\ UNCHANGED <<chainHead, gasPrice>>

LocalTxs(p) == {t \in p.pending \cup p.queue : t.from \in p.locals}

Rotated(p) == [p EXCEPT !.journal = LocalTxs(p)]

\* loop: the journal is written anew from the local transactions of the pool.
Rotate ==
  /\ Call(Rotated(pool))
  /\ UNCHANGED <<chainHead, gasPrice>>

\* The node stops or crashes; NewTxPool loads the journal and rotates it.
RestartPool ==
  /\ \E order \in Orders :
       LET empty == [pool EXCEPT !.pending = {}, !.queue = {}, !.all = {}, !.items = <<>>,
                                 !.stales = 0, !.locals = {},
                                 !.nonces = [a \in Accounts |-> StateNonce(chainHead, a)]]
           loaded == FoldLeft(LAMBDA p, t : addTxsLocked(p, chainHead, Min(Prices), <<t>>, TRUE, order),
                              empty, ByNonce(pool.journal))
       IN Call(Rotated(loaded))
  /\ gasPrice' = Min(Prices)
  /\ UNCHANGED chainHead

PoolNext ==
  \/ \E tx \in Txs, local \in BOOLEAN : AddTx(tx, local)
  \/ \E tx \in Txs : RemoveTx(tx)
  \/ \E price \in Prices : SetGasPrice(price)
  \/ \E b \in DOMAIN Blocks : NewHead(b)
  \/ \E a \in Accounts : Evict(a)
  \/ Rotate
  \/ RestartPool

PoolSpec == PoolInit /\ [][PoolNext]_poolVars
-----------------------------------------------------------------------------
\* After any additions, replacements, removals and resets every transaction of
\* the pool is pending or queued, never both, no two of an account have the same
\* nonce, and each can be found by its price when room has to be made.  What is
\* executable is pending: no queued transaction has the next nonce, and all that
\* are pending can be paid.
PoolConsistent ==
  /\ pool.all = pool.pending \cup pool.queue
  /\ \A t \in pool.all : At(pool.all, t) = {t}
  /\ pool.all \subseteq ToSet(pool.items)
  /\ \A t \in pool.queue : t.nonce # pool.nonces[t.from]
  /\ \A t \in pool.pending : t.price <= Balance(chainHead, t.from)

\* A local transaction leaves the pool only when its nonce is used by a block or by
\* a dearer one, it cannot be paid, the engine forbids it, or the node restarts
\* and it is not in the journal: limits and prices never drop it.
LocalsStay ==
  [][\A t \in LocalTxs(pool) :
       \/ t \in pool'.all
       \/ t.nonce < StateNonce(chainHead', t.from)
       \/ t.price > Balance(chainHead', t.from)
       \/ \E u \in At(pool'.all, t) : u.price > t.price
       \/ RemoveTx(t)
       \/ (RestartPool /\ t \notin pool.journal)]_poolVars
=============================================================================
