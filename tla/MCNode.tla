------------------------------- MODULE MCNode -------------------------------
(***************************************************************************)
(* Small instances, for TLC, of the components that are goroutines of a    *)
(* node.  They meet at interfaces that the modules leave open (any block   *)
(* may be imported, any message may arrive), so each is explored on its    *)
(* own: system names the one that moves, all others stay as they began.    *)
(***************************************************************************)
EXTENDS DposSeal, BFTSealing, BFTBacklog, Feed, NodeLifecycle, P2PServer, Fetcher,
        DownloadQueue, StateSync, ChainIndexer, StateTransition

CONSTANTS
  Systems,  \* the components to explore
  Pool,     \* all that may ever be elected
  MinSize   \* signers at least

VARIABLE system  \* the component that moves

\* Sets of signers of which more than half is up.
MCSignerSets ==
  {S \in SUBSET Pool : Cardinality(S) >= MinSize /\ 2 * Cardinality(S \cap Down) < Cardinality(S)}

\* A validator that works with others, and one that is alone and restarted.
MCCases ==
  {[height |-> 2, starts |-> 1, stops |-> 0, peers |-> TRUE],
   [height |-> 1, starts |-> 2, stops |-> 1, peers |-> FALSE]}

\* Without a stop: a validator that works with others, and one that is alone.
MCCasesShort ==
  {[height |-> 1, starts |-> 1, stops |-> 0, peers |-> TRUE],
   [height |-> 2, starts |-> 1, stops |-> 0, peers |-> FALSE]}

\* One value for three subscribers, or two values for two of them.
MCFeedCases == {<<{1}, {"a", "b", "c"}>>, <<{1, 2}, {"a", "b"}>>}

\* A state whose parts are shared, and one that is a part of it.
MCRefs == [r |-> <<"a", "c">>, a |-> <<"c", "c">>, c |-> <<>>]

MCNumber == [x |-> 1, y |-> 2]
MCServices == <<"eth", "whisper", "stats">>

\* A chain of six blocks, and branches off its second and third one.
MCParent == <<0, 1, 2, 3, 4, 5, 2, 7, 8, 3, 10>>
MCSectionSize == <<2, 2>>
MCConfirms == <<1, 0>>

Msg(to, v, g, n) == [from |-> "s", to |-> to, value |-> v, gas |-> g, price |-> 1, nonce |-> n]

\* Calls of a contract, a creation, one message that lacks the funds and one that
\* lacks the gas.
MCMessages ==
  {Msg("c", 1, 7, 0), Msg("create", 1, 5, 0), Msg("c", 0, 4, 1),
   Msg("m", 9, 3, 1), Msg("m", 1, 2, 1)}
MCFunds == [s |-> 15, m |-> 0, c |-> 1, x |-> 0]
MCCreateAddress(creator, n) == "x"
-----------------------------------------------------------------------------
Still(name, moves, v) == IF system = name THEN moves ELSE UNCHANGED v

MCInit ==
  /\ system \in Systems
  /\ Init /\ SealingInit /\ BacklogInit /\ FeedInit /\ NodeInit
  /\ ServerInit /\ FetcherInit /\ DownloadInit /\ StateSyncInit /\ IndexerInit /\ ExecInit
  /\ system # "dpos" => signers = CHOOSE S \in SignerSets : TRUE
  /\ system # "sealing" => case = CHOOSE c \in Cases : TRUE
  /\ <<toSend, {c \in Subs : sub[c] = "new"}>> \in
       IF system = "feed" THEN MCFeedCases ELSE {<<Values, Subs>>}
  /\ system # "server" => dial = CHOOSE d \in FirstDials : TRUE

MCNext ==
  /\ UNCHANGED system
  /\ Still("dpos", Next, vars)
  /\ Still("sealing", SealingNext, sealingVars)
  /\ Still("backlog", BacklogNext, backlogVars)
  /\ Still("feed", FeedNext, feedVars)
  /\ Still("node", NodeNext, nodeVars)
  /\ Still("server", ServerNext, serverVars)
  /\ Still("fetcher", FetcherNext, fetcherVars)
  /\ Still("download", DownloadNext, downloadVars)
  /\ Still("state", StateSyncNext, stateSyncVars)
  /\ Still("indexer", IndexerNext, indexVars)
  /\ Still("exec", ExecNext, execVars)

allVars ==
  <<system, vars, sealingVars, backlogVars, feedVars, nodeVars, serverVars, fetcherVars,
    downloadVars, stateSyncVars, indexVars, execVars>>

\* The others never change: a state is known by the component that moves.
Moving ==
  CASE system = "dpos"     -> vars
    [] system = "sealing"  -> sealingVars
    [] system = "backlog"  -> backlogVars
    [] system = "feed"     -> feedVars
    [] system = "node"     -> nodeVars
    [] system = "server"   -> serverVars
    [] system = "fetcher"  -> fetcherVars
    [] system = "download" -> downloadVars
    [] system = "state"    -> stateSyncVars
    [] system = "indexer"  -> indexVars
    [] system = "exec"     -> execVars
View == <<system, Moving>>

\* The fairness of each component, while it moves.
MCFairness ==
  /\ \A g \in SealingGoroutines : WF_sealingVars(system = "sealing" /\ SealingGoroutine(g))
  /\ WF_feedVars(system = "feed" /\ SendStep)
  /\ \A c \in Subs : WF_feedVars(system = "feed" /\ (RemoveIdle(c) \/ SendRemove(c)))
  /\ \A p \in ServerSteps : WF_serverVars(system = "server" /\ ServerStep(p[1], p[2]))
  /\ WF_fetcherVars(system = "fetcher" /\ \E expired \in SUBSET Hashes : LoopTop(expired))
  /\ \A h \in Hashes : /\ WF_fetcherVars(system = "fetcher" /\ Done(h))
                       /\ WF_fetcherVars(system = "fetcher" /\ Import1(h))
  /\ \A s \in DownloadSteps :
       WF_downloadVars(system = "download" /\ DownloadStep(s[1], s[2], s[3]))
  /\ \A s \in StateSyncSteps : WF_stateSyncVars(system = "state" /\ StateSyncStep(s))
  /\ WF_indexVars(system = "indexer" /\ EventLoop)
  /\ \A i \in Indexers : /\ WF_indexVars(system = "indexer" /\ UpdateLoop(i))
                         /\ WF_indexVars(system = "indexer" /\ Throttled(i))

MCSpec == MCInit /\ [][MCNext]_allVars
FairSpec == MCSpec /\ MCFairness
-----------------------------------------------------------------------------
\* What the components promise, while they move: the rest of the behaviours is not
\* searched for a component that stands still.

\* A miner that is not stopped gets block after block into the chain (ChainAdvances).
SealingProgress == system = "sealing" => ChainAdvances

\* Feed delivers every value once, and Unsubscribe returns.
FeedProgress == FeedDelivers /\ (system = "feed" => UnsubscribeReturns)

\* A static node that is not connected is dialled again (dialstate.newTasks).
ServerProgress == system = "server" => StaticKept

\* The fetcher's counters stay exact, and what it has queued is imported or dropped.
FetcherProgress == []QueueExact /\ (system = "fetcher" => QueueDrains)

\* The synchronisation ends with every block taken out of the cache, whatever one
\* of the peers does (fetchParts, expire, DeliverBodies).
DownloadProgress == system = "download" => AllDownloaded

\* The database never has a node without what is below it, no wanted node is
\* forgotten, and the state of the pivot arrives (stateSync.loop, runStateSync).
StateProgress ==
  /\ [](StateClosed /\ NothingForgotten /\ StateComplete)
  /\ (system = "state" => StateArrives)

\* The index stays canonical, and every section that is confirmed is indexed.
IndexerProgress == []SectionsCanonical /\ (system = "indexer" => IndexFollows)
=============================================================================
