--------------------------------- MODULE Vault ---------------------------------
(***************************************************************************)
(* The vault application for one vault: actions that need a threshold of an  *)
(* authority, their cancellation, and withdrawals under a policy, authorized *)
(* by the hook the staking application invokes.                              *)
(***************************************************************************)
EXTENDS Integers, FiniteSets, FiniteSetsExt, Sequences

CONSTANTS Addresses,
          Recipients,         \* addresses that may withdraw
          Policies,           \* [amount, interval]
          AuthorityChoices,   \* authorities an action may set: [addresses, threshold]
          GenesisAdmin, GenesisSuspend,
          InitialBalance, MaxNonce, MaxHeight   \* bounds

AuthorityValid(a) == a.addresses # {} /\ a.threshold > 0 /\ a.threshold <= Cardinality(a.addresses)

VaultAssumption ==
    /\ IsFiniteSet(Addresses) /\ Recipients \subseteq Addresses
    /\ Policies \subseteq [amount : Nat, interval : Nat]
    /\ AuthorityChoices \cup {GenesisAdmin, GenesisSuspend} \subseteq
           [addresses : SUBSET Addresses, threshold : Nat]
    /\ AuthorityValid(GenesisAdmin) /\ AuthorityValid(GenesisSuspend)
    /\ MaxNonce \in Nat /\ MaxHeight \in Nat \ {0} /\ InitialBalance \in Nat

\* A new authority or, where an action leaves the old one, none.
MaybeAuthority == {{}} \cup {{a} : a \in AuthorityChoices}

Actions ==
    [kind : {"suspend", "resume", "message"}]
    \cup [kind : {"policy"}, address : Recipients, policy : Policies]
    \cup [kind : {"authority"}, admin : MaybeAuthority, suspend : MaybeAuthority]

NoAction == [action |-> [kind |-> "none"], by |-> {}]

VARIABLES
    height, balance,
    vault,     \* [active, nonce, admin, suspend]
    pending,   \* nonce |-> [action, by]
    policy,    \* recipient |-> [amount, interval, bucket, used]
    signed,    \* history: authorizations given, <<address, nonce, action>>
    taken      \* history: withdrawals, [to, height, left, amount], since the last change of interval

vars == <<height, balance, vault, pending, policy, signed, taken>>

\* Action.Validate: new authorities are valid, and there is at least one.
ActionValid(action) ==
    action.kind = "authority" =>
        /\ action.admin \cup action.suspend # {}
        /\ \A a \in action.admin \cup action.suspend : AuthorityValid(a)

Verify(auth, by) == Cardinality(auth.addresses \cap by) >= auth.threshold

\* The authorities any of which may carry out an action.
Authorities(vlt, action) ==
    IF action.kind \in {"suspend", "resume"} THEN {vlt.admin, vlt.suspend} ELSE {vlt.admin}

IsAuthorized(vlt, action, addr) ==
    \E auth \in Authorities(vlt, action) : addr \in auth.addresses

CanExecute(vlt, action, by) ==
    \E auth \in Authorities(vlt, action) : Verify(auth, by)

-----------------------------------------------------------------------------
\* A new interval starts a new count.
UpdateWithdrawPolicy(old, new) ==
    [amount |-> new.amount, interval |-> new.interval,
     bucket |-> IF old.interval = new.interval THEN old.bucket ELSE 0,
     used   |-> IF old.interval = new.interval THEN old.used ELSE 0]

\* ActionUpdateAuthority.Apply.
Replaced(old, new) == IF new = {} THEN old ELSE CHOOSE a \in new : TRUE

\* executeAction.  A message of the vault moves tokens out of it, or fails.
ExecuteAction(action, vlt) ==
    /\ vault' = CASE action.kind = "suspend"   -> [vlt EXCEPT !.active = FALSE]
                  [] action.kind = "resume"    -> [vlt EXCEPT !.active = TRUE]
                  [] action.kind = "authority" ->
                         [vlt EXCEPT !.admin = Replaced(@, action.admin),
                                     !.suspend = Replaced(@, action.suspend)]
                  [] OTHER -> vlt
    /\ policy' = IF action.kind # "policy" THEN policy
                 ELSE [policy EXCEPT ![action.address] = UpdateWithdrawPolicy(@, action.policy)]
    /\ taken' = IF action.kind = "policy" /\ policy[action.address].interval # action.policy.interval
                THEN {w \in taken : w.to # action.address} ELSE taken
    /\ balance' \in IF action.kind = "message" THEN 0..balance ELSE {balance}

PendingAcceptableMutant(nonce, action) == TRUE

\* A pending action with this nonce must be the same one.
PendingAcceptable(nonce, action) == pending[nonce] = NoAction \/ pending[nonce].action = action

RemovePendingAction(p, nonce) == [p EXCEPT ![nonce] = NoAction]

AuthorizeAction(addr, nonce, action) ==
    LET by == pending[nonce].by \cup {addr}
    IN /\ ActionValid(action)
       /\ nonce = vault.nonce
       /\ IsAuthorized(vault, action, addr)
       /\ PendingAcceptable(nonce, action)
       /\ nonce < MaxNonce
       /\ signed' = signed \cup {<<addr, nonce, action>>}
       /\ IF CanExecute(vault, action, by)
          THEN /\ ExecuteAction(action, [vault EXCEPT !.nonce = @ + 1])
               /\ pending' = RemovePendingAction(pending, nonce)
          ELSE /\ pending' = [pending EXCEPT ![nonce] = [action |-> action, by |-> by]]
               /\ UNCHANGED <<vault, policy, taken, balance>>
       /\ UNCHANGED height

\* A cancellation uses up the nonce.
CancelNonce(vlt) == [vlt EXCEPT !.nonce = @ + 1]

CancelAction(addr, nonce) ==
    /\ nonce = vault.nonce /\ nonce < MaxNonce
    /\ addr \in vault.admin.addresses \cup vault.suspend.addresses
    /\ pending[nonce] # NoAction
    /\ IsAuthorized(vault, pending[nonce].action, addr)
    /\ pending' = RemovePendingAction(pending, nonce)
    /\ vault' = CancelNonce(vault)
    /\ UNCHANGED <<height, balance, policy, signed, taken>>

Bucket(p, h) == h \div p.interval

\* What counts against the limit at height h.
Used(p, h) == IF p.bucket = Bucket(p, h) THEN p.used ELSE 0

AuthorizeWithdrawal(p, h, amount) ==
    /\ p.amount > 0 /\ p.interval > 0
    /\ Used(p, h) + amount <= p.amount

\* A withdrawal with the hook of the vault.
Withdraw(to, amount) ==
    LET p == policy[to]
    IN /\ vault.active
       /\ AuthorizeWithdrawal(p, height, amount)
       /\ amount <= balance
       /\ balance' = balance - amount
       /\ policy' = [policy EXCEPT ![to] = [p EXCEPT !.bucket = Bucket(p, height),
                                                    !.used = Used(p, height) + amount]]
       /\ taken' = taken \cup {[to |-> to, height |-> height, left |-> balance', amount |-> amount]}
       /\ UNCHANGED <<height, vault, pending, signed>>

NextBlock ==
    /\ height < MaxHeight
    /\ height' = height + 1
    /\ UNCHANGED <<balance, vault, pending, policy, signed, taken>>

Init ==
    /\ height = 1 /\ balance = InitialBalance
    /\ vault = [active |-> TRUE, nonce |-> 0, admin |-> GenesisAdmin, suspend |-> GenesisSuspend]
    /\ pending = [n \in 0..MaxNonce |-> NoAction]
    /\ policy = [r \in Recipients |-> [amount |-> 0, interval |-> 0, bucket |-> 0, used |-> 0]]
    /\ signed = {} /\ taken = {}

Next ==
    \/ \E addr \in Addresses, nonce \in 0..MaxNonce, action \in Actions :
           AuthorizeAction(addr, nonce, action)
    \/ \E addr \in Addresses, nonce \in 0..MaxNonce : CancelAction(addr, nonce)
    \/ \E to \in Recipients, amount \in 1..InitialBalance : Withdraw(to, amount)
    \/ NextBlock

Spec == Init /\ [][Next]_vars

-----------------------------------------------------------------------------
(***************************************************************************)
(* Properties.                                                              *)
(***************************************************************************)

TypeOK ==
    /\ height \in 1..MaxHeight /\ balance \in 0..InitialBalance
    /\ vault.nonce \in 0..MaxNonce /\ vault.active \in BOOLEAN
    /\ AuthorityValid(vault.admin) /\ AuthorityValid(vault.suspend)
    /\ \A n \in 0..MaxNonce : pending[n].by \subseteq Addresses

\* The changes of this step are those that the action asks for.
Explains(action) ==
    /\ vault'.admin # vault.admin => action.kind = "authority" /\ action.admin = {vault'.admin}
    /\ vault'.suspend # vault.suspend => action.kind = "authority" /\ action.suspend = {vault'.suspend}
    /\ vault'.active # vault.active => action.kind = IF vault'.active THEN "resume" ELSE "suspend"
    /\ \A r \in Recipients : policy'[r].amount # policy[r].amount =>
           action.kind = "policy" /\ action.address = r /\ action.policy.amount = policy'[r].amount

\* Whatever changes the vault's state, its authorities or its policies was
\* authorized by a threshold of one authority for this very action and nonce,
\* one authorization each; only canceling the pending action takes one
\* address (authorizeAction, cancelAction).
ThresholdAuthorized ==
    (vault' # vault \/ \E r \in Recipients : policy'[r].amount # policy[r].amount) =>
        \/ \E action \in Actions : Explains(action) /\ \E auth \in Authorities(vault, action) :
               Verify(auth, {a \in Addresses : <<a, vault.nonce, action>> \in signed'})
        \/ /\ pending[vault.nonce] # NoAction /\ pending'[vault.nonce] = NoAction
           /\ vault' = [vault EXCEPT !.nonce = @ + 1] /\ policy' = policy

\* An authorization counts once: only the current nonce has a pending action,
\* and all its authorizations are for this action.
AuthorizationsNotReused ==
    \A n \in 0..MaxNonce : pending[n] # NoAction =>
        /\ n = vault.nonce
        /\ \A a \in pending[n].by : <<a, n, pending[n].action>> \in signed

\* A nonce never has two lives: what was authorized under it ends with it.
NonceUsedOnce ==
    \A n \in 0..MaxNonce : pending[n] # NoAction /\ pending'[n] = NoAction => vault'.nonce > n

\* Within an interval of blocks a recipient never takes more than the limit,
\* the one in force at its last withdrawal.
LimitRespected ==
    \A r \in Recipients :
        (\E w \in taken' \ taken : w.to = r) =>
           MapThenSumSet(LAMBDA w : w.amount,
               {w \in taken' : w.to = r /\ Bucket(policy[r], w.height) = Bucket(policy[r], height)})
             <= policy[r].amount
=============================================================================
