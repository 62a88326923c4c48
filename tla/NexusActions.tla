---------------------------- MODULE NexusActions ----------------------------
(* The Nexus tab of the Electron wallet: what a click on stake, unstake,    *)
(* claim, release, buy back, burn, register, deregister or buy gas does     *)
(* (electron/src/app.js), through the handlers of electron/main.js that     *)
(* sign with the bound Nexus key, on a chain that orders the transactions   *)
(* of an account by nonce.                                                  *)
(*                                                                          *)
(* A click is a job.  No button is disabled while a job runs, so jobs       *)
(* interleave at every await.  A handler is two transactions, an approval   *)
(* and what it is for, or one.  Amounts are one unit; how much gas there is *)
(* shows only in the answer to the gas check.                               *)
EXTENDS Naturals, Sequences, FiniteSetsExt

CONSTANTS
  Jobs,      \* clicks
  Wallets,   \* CryLo wallets; each stands for its bound Nexus account too
  Kinds,     \* the buttons that are clicked
  Units,     \* wCRYLO of an account at first, half of it staked
  Nil, Vault, Burned

AllKinds == {"stake", "unstake", "claim", "burnForCryLo", "buyback", "burnNft",
             "register", "unregister", "claimNode", "dailyGas", "buyGas"}

ASSUME NexusBounds == Kinds \subseteq AllKinds /\ Units \in Nat /\ Nil \notin Wallets

(* The handlers that send an approval first, and the actions that begin     *)
(* with ensureNexusGasForAction.                                            *)
Approving == {"stake", "buyGas", "register", "buyback"}
GasChecked == AllKinds \ {"register", "dailyGas", "buyGas"}
NftKinds == {"buyback", "burnNft"}

VARIABLES
  opened,   \* State.walletName, State.address, State.nexusAddress
  job,      \* job[j]: a click
  pool,     \* pool[w]: transactions of w that are sent and not mined
  log,      \* log[w]: the mined ones; an index is a nonce plus one
  account,  \* account[w]: balances of w in the contracts
  nft,      \* one token of CryLoInteractiveNFT
  config    \* the account operator.json is about

nexusVars == <<opened, job, pool, log, account, nft, config>>
chain == <<pool, log, account, nft>>

NewJob == [kind |-> Nil, stage |-> "idle", by |-> Nil, topup |-> FALSE,
           step |-> "act", nonce |-> 0, told |-> "nothing"]

NexusInit ==
  /\ opened \in Wallets
  /\ job = [j \in Jobs |-> NewJob]
  /\ pool = [w \in Wallets |-> {}]
  /\ log = [w \in Wallets |-> <<>>]
  /\ account = [w \in Wallets |-> [token |-> Units, staked |-> Units, node |-> FALSE, allow |-> {}]]
  /\ nft \in [owner : Wallets, approved : {FALSE}]
  /\ config = Nil

----------------------------------------------------------------------------
(* The chain and the contracts.                                             *)

(* Whether a transaction of w goes through in the present state. *)
Possible(w, step, kind) ==
  LET a == account[w] IN
  /\ kind \in NftKinds => nft.owner = w
  /\ step = "act" =>
       /\ kind = "buyback" => nft.approved
       /\ kind \in {"stake", "buyGas", "register"} => kind \in a.allow
       /\ kind \in {"stake", "buyGas", "register", "burnForCryLo"} => a.token > 0
       /\ kind \in {"unstake", "claim"} => a.staked > 0
       /\ kind = "register" => ~a.node
       /\ kind \in {"unregister", "claimNode"} => a.node

AccountAfter(a, step, kind) ==
  IF step = "approve" THEN [a EXCEPT !.allow = @ \cup ({kind} \ NftKinds)]
  ELSE CASE kind = "stake" -> [a EXCEPT !.token = @ - 1, !.staked = @ + 1, !.allow = @ \ {kind}]
         [] kind = "buyGas" -> [a EXCEPT !.token = @ - 1, !.allow = @ \ {kind}]
         [] kind = "register" -> [a EXCEPT !.token = @ - 1, !.node = TRUE, !.allow = @ \ {kind}]
         [] kind = "burnForCryLo" -> [a EXCEPT !.token = @ - 1]
         [] kind = "unstake" -> [a EXCEPT !.staked = @ - 1, !.token = @ + 1]
         [] kind = "unregister" -> [a EXCEPT !.node = FALSE, !.token = @ + 1]
         [] OTHER -> a

NftAfter(step, kind) ==
  CASE kind = "burnNft" -> [owner |-> Burned, approved |-> FALSE]
    [] kind = "buyback" /\ step = "approve" -> [nft EXCEPT !.approved = TRUE]
    [] kind = "buyback" /\ step = "act" -> [owner |-> Vault, approved |-> FALSE]
    [] OTHER -> nft

(* The next transaction of w in the order of nonces is mined. *)
Mine(w) ==
  \E t \in pool[w] :
    LET ok == Possible(w, t.step, t.kind) IN
    /\ t.nonce = Len(log[w])
    /\ pool' = [pool EXCEPT ![w] = @ \ {t}]
    /\ log' = [log EXCEPT ![w] = Append(@, [job |-> t.job, step |-> t.step, kind |-> t.kind, ok |-> ok])]
    /\ account' = IF ok THEN [account EXCEPT ![w] = AccountAfter(@, t.step, t.kind)] ELSE account
    /\ nft' = IF ok THEN NftAfter(t.step, t.kind) ELSE nft
    /\ UNCHANGED <<opened, job, config>>

(* getTransactionCount(address, 'pending'): the first nonce that is neither *)
(* mined nor waiting.                                                       *)
PendingCount(w) ==
  Min({n \in {Len(log[w])} \cup {t.nonce + 1 : t \in pool[w]} : \A t \in pool[w] : t.nonce # n})

----------------------------------------------------------------------------
(* The jobs.                                                                *)

(* What the page says when a handler reports an error.  buyBackNexusNFT     *)
(* goes on after the message of a failed call.                              *)
Failed(r) ==
  [r EXCEPT !.stage = "over",
            !.told = IF r.kind = "buyback" /\ ~r.topup THEN "completed" ELSE "failed"]

(* A handler of the main process is called for the wallet that is open now; *)
(* loadBoundNexusWallet refuses when there is none.                         *)
Call(r, topup) ==
  LET c == [r EXCEPT !.topup = topup, !.by = opened] IN
  IF opened = Nil THEN Failed(c) ELSE [c EXCEPT !.stage = "nonce"]

Click(j, k) ==
  /\ job[j].stage = "idle" /\ opened # Nil
  /\ LET r == [NewJob EXCEPT !.kind = k] IN
     job' = [job EXCEPT ![j] = IF k \in GasChecked THEN [r EXCEPT !.stage = "gas"] ELSE Call(r, FALSE)]
  /\ UNCHANGED <<opened, chain, config>>

(* ensureNexusGasForAction: there is enough, or gas is bought first, or the *)
(* check fails or the user declines.                                        *)
GasChecks(j) ==
  /\ job[j].stage = "gas"
  /\ job' \in {[job EXCEPT ![j] = r] :
       r \in {Call(job[j], FALSE), Call(job[j], TRUE),
              [job[j] EXCEPT !.stage = "over", !.told = "failed"]}}
  /\ UNCHANGED <<opened, chain, config>>

Running(r) == IF r.topup THEN "buyGas" ELSE r.kind
FirstStep(r) == IF Running(r) \in Approving THEN "approve" ELSE "act"

(* The owner is looked up for a token, then the nonce. *)
ReadNonce(j) ==
  LET r == job[j] IN
  /\ r.stage = "nonce"
  /\ job' = [job EXCEPT ![j] =
       IF Running(r) \in NftKinds /\ nft.owner # r.by THEN Failed(r)
       ELSE [r EXCEPT !.stage = "send", !.step = FirstStep(r), !.nonce = PendingCount(r.by)]]
  /\ UNCHANGED <<opened, chain, config>>

(* The transaction is tried out and sent.  The node takes no nonce twice.   *)
Accepts(w, n) == n >= Len(log[w]) /\ \A t \in pool[w] : t.nonce # n

SendTx(j) ==
  LET r == job[j]
      t == [nonce |-> r.nonce, job |-> j, step |-> r.step, kind |-> Running(r)] IN
  /\ r.stage = "send"
  /\ IF Possible(r.by, r.step, Running(r)) /\ Accepts(r.by, r.nonce)
     THEN /\ pool' = [pool EXCEPT ![r.by] = @ \cup {t}]
          /\ job' = [job EXCEPT ![j].stage = "wait"]
     ELSE /\ job' = [job EXCEPT ![j] = Failed(r)]
          /\ UNCHANGED pool
  /\ UNCHANGED <<opened, log, account, nft, config>>

(* A request to the Nexus node fails: what was sent before stays sent. *)
BreaksOff(j) ==
  /\ job[j].stage \in {"nonce", "send", "wait"}
  /\ job' = [job EXCEPT ![j] = Failed(job[j])]
  /\ UNCHANGED <<opened, chain, config>>

(* Variant: the counter is advanced twice. *)
NonceAfterTwo(n) == n + 2

NonceAfter(n) == n + 1

(* What follows a transaction that went through: the second one, the action *)
(* that gas was bought for, or the end.                                     *)
Onward(r) ==
  IF r.step = "approve" THEN [r EXCEPT !.stage = "send", !.step = "act", !.nonce = NonceAfter(@)]
  ELSE IF r.topup THEN Call(r, FALSE)
  ELSE [r EXCEPT !.stage = "over", !.told = "completed"]

(* Variant: the configuration is saved with the approval. *)
SavesConfigEarly(r) ==
  config' = IF r.kind = "register" /\ ~r.topup THEN r.by ELSE config

(* saveOperatorConfig, once the registration went through. *)
SavesConfig(r) ==
  config' = IF r.kind = "register" /\ r.step = "act" /\ log[r.by][r.nonce + 1].ok THEN r.by ELSE config

(* Variant: the second transaction asks for its nonce anew. *)
WaitedAskingAgain(j) ==
  LET r == job[j] IN
  /\ r.stage = "wait" /\ r.nonce < Len(log[r.by])
  /\ job' = [job EXCEPT ![j] =
       IF ~log[r.by][r.nonce + 1].ok THEN Failed(r)
       ELSE IF r.step = "approve"
            THEN [r EXCEPT !.stage = "send", !.step = "act", !.nonce = PendingCount(r.by)]
            ELSE Onward(r)]
  /\ SavesConfig(r)
  /\ UNCHANGED <<opened, chain>>

(* Variant: the receipt is not looked at. *)
WaitedOnly(j) ==
  LET r == job[j] IN
  /\ r.stage = "wait" /\ r.nonce < Len(log[r.by])
  /\ job' = [job EXCEPT ![j] = Onward(r)]
  /\ SavesConfig(r)
  /\ UNCHANGED <<opened, chain>>

(* tx.wait() throws for a transaction that was reverted. *)
Waited(j) ==
  LET r == job[j] IN
  /\ r.stage = "wait" /\ r.nonce < Len(log[r.by])
  /\ job' = [job EXCEPT ![j] = IF log[r.by][r.nonce + 1].ok THEN Onward(r) ELSE Failed(r)]
  /\ SavesConfig(r)
  /\ UNCHANGED <<opened, chain>>

(* Another wallet is opened, or none is while that is under way. *)
OpenOther(w) ==
  /\ w # opened
  /\ opened' = w
  /\ UNCHANGED <<job, chain, config>>

(* The application ends and starts again; jobs are forgotten. *)
Relaunch ==
  /\ opened' = Nil
  /\ job' = [j \in Jobs |-> IF job[j].stage \in {"idle", "over"} THEN job[j]
                            ELSE [job[j] EXCEPT !.stage = "over"]]
  /\ UNCHANGED <<chain, config>>

NexusNext ==
  \/ \E j \in Jobs :
       \/ \E k \in Kinds : Click(j, k)
       \/ GasChecks(j) \/ ReadNonce(j) \/ SendTx(j) \/ BreaksOff(j) \/ Waited(j)
  \/ \E w \in Wallets : Mine(w)
  \/ \E w \in Wallets \cup {Nil} : OpenOther(w)
  \/ Relaunch

NexusSpec == NexusInit /\ [][NexusNext]_nexusVars

----------------------------------------------------------------------------
(* Properties.                                                              *)

(* The action of job j itself was mined and went through. *)
Acted(j) == \E w \in Wallets : \E i \in DOMAIN log[w] :
  /\ log[w][i].ok
  /\ log[w][i].job = j /\ log[w][i].step = "act" /\ log[w][i].kind = job[j].kind

(* A contract call that needs an approval uses the one its own job sent     *)
(* right before it: no transaction of another click, which may approve the  *)
(* same contract or spend the allowance, comes between the two.             *)
OwnApproval ==
  \A w \in Wallets : \A i \in DOMAIN log[w] :
    log[w][i].step = "act" /\ log[w][i].kind \in Approving =>
      /\ i > 1
      /\ log[w][i - 1] = [log[w][i] EXCEPT !.step = "approve", !.ok = TRUE]

(* When the page says that an action was completed, it was, although        *)
(* another click may have got in between the trial and the mining.  The     *)
(* buyback is the exception: see Failed.                                    *)
CompletedIsDone ==
  \A j \in Jobs : job[j].told = "completed" /\ job[j].kind # "buyback" => Acted(j)

(* The nonces of an account are handed out without a gap, so that whatever  *)
(* is sent can be mined and no handler waits in tx.wait(), which has no     *)
(* timeout, for ever.                                                       *)
NoNonceGap ==
  \A w \in Wallets : \A t \in pool[w] :
    \A n \in Len(log[w]) .. t.nonce : \E u \in pool[w] : u.nonce = n

(* operator.json names an account only when its registration as a node was  *)
(* mined, by whatever clicks and restarts the file came to be written.      *)
ConfigIsRegistered ==
  config # Nil =>
    \E i \in DOMAIN log[config] :
      log[config][i].ok /\ log[config][i].kind = "register" /\ log[config][i].step = "act"

============================================================================
