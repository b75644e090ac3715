--------------------------- MODULE StateTransition ---------------------------
(***************************************************************************)
(* The execution of the transactions of one block: the loop of the worker  *)
(* (miner/worker.go), the state transition with its purchase of gas        *)
(* (core/state_transition.go, core/gaspool.go) and the nested calls and    *)
(* creations of the EVM (core/vm/evm.go).                                  *)
(*                                                                         *)
(* The world state is one record, and a snapshot is a copy of it: that the *)
(* undo journal restores exactly such a copy is what StateJournal checks.  *)
(* Code is abstracted to the choices an interpreter step has; every        *)
(* instruction costs OpGas.  The staking messages are in DposContext.      *)
(***************************************************************************)
EXTENDS Integers, Sequences, FiniteSets, FiniteSetsExt, Functions

CONSTANTS
    Holders,              \* the addresses that may hold a balance
    Contracts,            \* those with code at the start
    Messages,             \* transactions: [from, to, value, gas, price, nonce]
    Funds,                \* the balances at the start
    Coinbase,             \* evm.Coinbase
    CreateAddress(_, _),  \* crypto.CreateAddress(creator, nonce)
    GasLimit,             \* header.GasLimit
    TxGas,                \* the intrinsic gas of a message
    OpGas,                \* what one instruction costs
    ValueGas, Stipend,    \* params.CallValueTransferGas and params.CallStipend
    RefundGas,            \* added to the refund counter by a cleared slot or a suicide
    CreateDepth,          \* params.CallCreateDepth
    MaxTransactions       \* bound on the transactions tried

ASSUME ExecutionAssumption ==
    /\ IsFiniteSet(Holders) /\ Contracts \subseteq Holders /\ Coinbase \in Holders
    /\ Funds \in [Holders -> Nat]
    /\ {TxGas, OpGas} \subseteq Nat \ {0}
    /\ {GasLimit, ValueGas, Stipend, RefundGas, CreateDepth, MaxTransactions} \subseteq Nat
    /\ Stipend <= ValueGas
    /\ \A m \in Messages : /\ m.from \in Holders \ Contracts
                          /\ m.to \in Holders \union {"create"}
                          /\ {m.value, m.gas, m.price, m.nonce} \subseteq Nat

VARIABLES
    world,      \* the StateDB: balances, nonces, code, suicided accounts, refund
    frames,     \* the running EVM calls, innermost last
    message,    \* the message being applied, or NoMessage
    before,     \* the snapshot of commitTransaction
    gasPool,    \* the GasPool
    gasUsed,    \* header.GasUsed
    outcome,    \* how the last message ended
    tried       \* messages tried so far

execVars == <<world, frames, message, before, gasPool, gasUsed, outcome, tried>>

NoMessage == [gas |-> 0, price |-> 0]

Supply == SumFunctionOnSet(Funds, Holders)

Total(w) == SumFunctionOnSet(w.balance, Holders)

ExecInit ==
    /\ world = [balance |-> Funds, nonce |-> [a \in Holders |-> 0], code |-> Contracts,
                dead |-> {}, refund |-> 0, burnt |-> 0]
    /\ frames = <<>> /\ message = NoMessage /\ before = world
    /\ gasPool = GasLimit /\ gasUsed = 0 /\ outcome = "none" /\ tried = 0

(***************************************************************************)
(* Transfer of core/evm.go: the subtraction is stored before the addition  *)
(* reads, so that a transfer to oneself changes nothing.                   *)
(***************************************************************************)
TransferStale(w, a, b, v) ==
    [w EXCEPT !.balance[a] = @ - v, !.balance[b] = w.balance[b] + v]

Transfer(w, a, b, v) ==
    LET taken == [w.balance EXCEPT ![a] = @ - v]
    IN [w EXCEPT !.balance = [taken EXCEPT ![b] = @ + v]]

CanTransfer(w, a, v) == w.balance[a] >= v

IncNonce(w, a) == [w EXCEPT !.nonce[a] = @ + 1]

(***************************************************************************)
(* Finalise at the end of a transaction: suicided accounts are deleted     *)
(* with whatever they received since, the refund counter is cleared.       *)
(***************************************************************************)
FinaliseWorld(w) ==
    [balance |-> [a \in Holders |-> IF a \in w.dead THEN 0 ELSE w.balance[a]],
     nonce   |-> [a \in Holders |-> IF a \in w.dead THEN 0 ELSE w.nonce[a]],
     code    |-> w.code \ w.dead,
     dead    |-> {}, refund |-> 0,
     burnt   |-> w.burnt + SumFunctionOnSet(w.balance, w.dead)]

(***************************************************************************)
(* refundGas: the refund counter, capped to half of the gas used, goes     *)
(* back to the block's pool with the gas left; the sender is paid nothing. *)
(***************************************************************************)
refundGas(w, left) == left + Min({w.refund, (message'.gas - left) \div 2})

(***************************************************************************)
(* The end of a message that consensus accepts, its execution successful   *)
(* or not: the whole gas bought is paid to the coinbase (TransitionDb),    *)
(* the state is finalised and the gas used counted (ApplyTransaction).     *)
(***************************************************************************)
Conclude(w, left, bought, result) ==
    LET rest == refundGas(w, left)
    IN /\ world' = FinaliseWorld([w EXCEPT !.balance[Coinbase] = @ + message'.gas * message'.price])
       /\ gasPool' = bought + rest
       /\ gasUsed' = gasUsed + message'.gas - rest
       /\ outcome' = result
       /\ frames' = <<>>

(* The error returns: commitTransaction reverts the state, not the pool. *)
Refuse(left) ==
    /\ world' = before'
    /\ gasPool' = left
    /\ outcome' = "refused"
    /\ frames' = <<>>
    /\ UNCHANGED gasUsed

Frame(self, gas, snap, creates, readOnly) ==
    [self |-> self, gas |-> gas, snap |-> snap, creates |-> creates, readOnly |-> readOnly]

(***************************************************************************)
(* evm.Create from the point where the balance suffices: the nonce of the  *)
(* creator rises before the snapshot that a failure reverts to.            *)
(***************************************************************************)
Collides(w, a) == w.nonce[a] # 0 \/ a \in w.code

NewContract(w, creator, value) ==
    LET a == CreateAddress(creator, w.nonce[creator])
        paid == Transfer([w EXCEPT !.nonce[creator] = @ + 1, !.nonce[a] = 1], creator, a, value)
    IN [address |-> a, collides |-> Collides(IncNonce(w, creator), a),
        snap |-> IncNonce(w, creator), world |-> paid]

(* The sender's nonce is set before the snapshot of evm.Call. *)
EnterCall(w, m) == IncNonce(w, m.from)

BuyGas(w, m) == [w EXCEPT !.balance[m.from] = @ - m.gas * m.price]

(* What a message leaves in the block's pool when it is accepted. *)
SubGas(m) == gasPool - m.gas

ApplyMessage(m) ==
    LET bought == BuyGas(world, m)
        gas == m.gas - TxGas
        made == NewContract(bought, m.from, m.value)
        entered == EnterCall(bought, m)
        paid == Transfer(entered, m.from, m.to, m.value)
    IN /\ frames = <<>> /\ gasPool >= TxGas /\ tried < MaxTransactions
       /\ tried' = tried + 1
       /\ message' = m
       /\ before' = world
       /\ IF \/ world.nonce[m.from] # m.nonce
             \/ world.balance[m.from] < m.gas * m.price
             \/ gasPool < m.gas
          THEN Refuse(gasPool)
          ELSE IF gas < 0 \/ ~CanTransfer(bought, m.from, m.value)
          THEN Refuse(SubGas(m))
          ELSE IF m.to = "create"
          THEN IF made.collides
               THEN Conclude(made.snap, 0, SubGas(m), "failed")
               ELSE /\ world' = made.world
                    /\ frames' = <<Frame(made.address, gas, made.snap, TRUE, FALSE)>>
                    /\ gasPool' = SubGas(m)
                    /\ outcome' = "running"
                    /\ UNCHANGED gasUsed
          ELSE IF m.to \notin world.code
          THEN Conclude(paid, gas, SubGas(m), "done")
          ELSE /\ world' = paid
               /\ frames' = <<Frame(m.to, gas, entered, FALSE, FALSE)>>
               /\ gasPool' = SubGas(m)
               /\ outcome' = "running"
               /\ UNCHANGED gasUsed

top == frames[Len(frames)]

(* The innermost call returns to its caller, or to TransitionDb. *)
Return(w, left, result) ==
    /\ frames # <<>>
    /\ UNCHANGED <<message, before, tried>>
    /\ IF Len(frames) = 1
       THEN Conclude(w, left, gasPool, result)
       ELSE /\ world' = w
            /\ frames' = [SubSeq(frames, 1, Len(frames) - 1) EXCEPT ![Len(frames) - 1].gas = @ + left]
            /\ UNCHANGED <<gasPool, gasUsed, outcome>>

(* An instruction that goes on in the same call. *)
Continue(w, gas) ==
    /\ world' = w
    /\ frames' = [frames EXCEPT ![Len(frames)].gas = gas]
    /\ UNCHANGED <<message, before, gasPool, gasUsed, outcome, tried>>

(* Any error but a revert: the frame's changes and its gas are lost. *)
Fault == frames # <<>> /\ Return(top.snap, 0, "failed")

(* errExecutionReverted: the changes are lost, the gas is kept. *)
Revert == frames # <<>> /\ top.gas >= OpGas /\ Return(top.snap, top.gas - OpGas, "failed")

(* STOP or RETURN; a creation pays for the code it leaves. *)
Halt ==
    /\ frames # <<>>
    /\ \E code \in IF top.creates THEN {0, OpGas} ELSE {0} :
          IF top.gas < code
          THEN Fault
          ELSE Return([world EXCEPT !.code = IF code > 0 THEN @ \union {top.self} ELSE @],
                      top.gas - code, "done")

(* SSTORE to zero, or without refund any other instruction. *)
Execute ==
    /\ frames # <<>> /\ top.gas >= OpGas
    /\ \/ Continue(world, top.gas - OpGas)
       \/ ~top.readOnly /\ Continue([world EXCEPT !.refund = @ + RefundGas], top.gas - OpGas)

(***************************************************************************)
(* opSuicide: the balance goes to the heir before the account is emptied,  *)
(* so an account that inherits from itself burns its balance.              *)
(***************************************************************************)
Inherit(w, a, heir) ==
    LET paid == [w EXCEPT !.balance[heir] = @ + w.balance[a]]
    IN [paid EXCEPT !.balance[a] = 0, !.dead = @ \union {a},
                    !.burnt = IF heir = a THEN @ + w.balance[a] ELSE @,
                    !.refund = IF a \in w.dead THEN @ ELSE @ + RefundGas]

SelfDestruct ==
    /\ frames # <<>> /\ top.gas >= OpGas /\ ~top.readOnly
    /\ \E heir \in Holders : Return(Inherit(world, top.self, heir), top.gas - OpGas, "done")

(***************************************************************************)
(* CALL, CALLCODE, DELEGATECALL and STATICCALL with the gas the caller     *)
(* grants; a value adds the stipend, which its price covers.  A call that  *)
(* finds too little balance or too great a depth gives the gas back.       *)
(***************************************************************************)
CallCostFree(value) == IF value > 0 THEN ValueGas ELSE 0

CallCost(value) == OpGas + IF value > 0 THEN ValueGas ELSE 0

MakeCall(kind, to, value, granted) ==
    LET gas == granted + IF value > 0 THEN Stipend ELSE 0
        left == top.gas - CallCost(value) - granted
        moved == IF kind = "call" THEN Transfer(world, top.self, to, value) ELSE world
        self == IF kind \in {"call", "static"} THEN to ELSE top.self
        possible == Len(frames) <= CreateDepth /\ CanTransfer(world, top.self, value)
    IN /\ top.gas >= CallCost(value)
       /\ value > 0 => kind \in {"call", "callcode"}
       /\ ~(top.readOnly /\ kind = "call" /\ value > 0)
       /\ IF ~possible
          THEN Continue(world, left + gas)
          ELSE IF to \notin world.code
          THEN Continue(moved, left + gas)
          ELSE /\ world' = moved
               /\ frames' = Append([frames EXCEPT ![Len(frames)].gas = left],
                                   Frame(self, gas, world, FALSE, top.readOnly \/ kind = "static"))
               /\ UNCHANGED <<message, before, gasPool, gasUsed, outcome, tried>>

CallOut ==
    /\ frames # <<>>
    /\ \E kind \in {"call", "callcode", "delegate", "static"}, to \in Holders, value \in {0, 1} :
       \E granted \in {0, top.gas - CallCost(value)} : MakeCall(kind, to, value, granted)

(* CREATE passes all its gas on (but a 64th). *)
CreateOut ==
    /\ frames # <<>> /\ top.gas >= OpGas /\ ~top.readOnly
    /\ \E value \in {0, 1} :
          LET gas == top.gas - OpGas
              made == NewContract(world, top.self, value)
          IN IF Len(frames) > CreateDepth \/ ~CanTransfer(world, top.self, value)
             THEN Continue(world, gas)
             ELSE IF made.collides
             THEN Continue(made.snap, 0)
             ELSE /\ world' = made.world
                  /\ frames' = Append([frames EXCEPT ![Len(frames)].gas = 0],
                                      Frame(made.address, gas, made.snap, TRUE, FALSE))
                  /\ UNCHANGED <<message, before, gasPool, gasUsed, outcome, tried>>

Run == Fault \/ Revert \/ Halt \/ Execute \/ SelfDestruct \/ CallOut \/ CreateOut

ExecNext == Run \/ \E m \in Messages : ApplyMessage(m)

ExecSpec == ExecInit /\ [][ExecNext]_execVars

-----------------------------------------------------------------------------

(* The gas that the running calls still have. *)
HeldBy(calls) == SumFunction([i \in DOMAIN calls |-> calls[i].gas])

HeldGas == HeldBy(frames)

(***************************************************************************)
(* No coin is made or lost by any nesting of calls, creations, suicides,   *)
(* reverts and faults: what the accounts hold, the gas bought by the       *)
(* running message and what suicides burnt is the supply, and no balance   *)
(* is negative.  A message whose execution failed costs its sender the gas *)
(* it offered and one nonce, pays the coinbase, and changes nothing else;  *)
(* a message that is refused changes nothing at all (TransitionDb,         *)
(* commitTransaction).                                                     *)
(* The gas left in the block's pool, that of the running calls and the gas *)
(* counted as used never exceed the block's gas limit, so the block the    *)
(* worker builds also fits the pool Process starts with.                   *)
(***************************************************************************)
ValueConserved ==
    /\ gasPool \in Nat /\ world.balance \in [Holders -> Nat]
    /\ Total(world) + world.burnt + (IF frames # <<>> THEN message.gas * message.price ELSE 0) = Supply
    /\ outcome = "refused" => world = before
    /\ outcome = "failed" =>
          world = [BuyGas(before, message)
                      EXCEPT !.nonce[message.from] = @ + 1,
                             !.balance[Coinbase] = @ + message.gas * message.price]
    /\ gasPool + gasUsed + HeldGas <= GasLimit

(***************************************************************************)
(* Gas ends every execution, however calls and creations nest: a step of   *)
(* the interpreter takes gas from the message, or ends a call and makes    *)
(* none (a stipend is never more than the price of the value it comes      *)
(* with), so that this measure falls with every step.                      *)
(***************************************************************************)
ExecutionEnds ==
    [][frames # <<>> => 2 * HeldGas' + Len(frames') < 2 * HeldGas + Len(frames)]_execVars
=============================================================================
