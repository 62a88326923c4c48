--------------------------- MODULE MiningControl ---------------------------
(* The mining tab of the Electron wallet: electron/src/app.js drives the    *)
(* daemon's miner through electron/main.js (miner-start, miner-stop and     *)
(* miner-get-status), while a five second interval polls its status.        *)
(*                                                                          *)
(* The page is single threaded, so a continuation between two awaits is one *)
(* action.  A request travels on an HTTP connection of its own: the daemon  *)
(* serves pending requests in any order, a reply waits in the page's queue, *)
(* and a request that times out on the caller may still be served.          *)
(*                                                                          *)
(* A wallet stands for its own primary address.  What the tab displays      *)
(* (hash rates, estimates, block counts) is left out.                       *)
EXTENDS Naturals, FiniteSets, FiniteSetsExt

CONSTANTS
  WalletNames, \* the wallets of the wallet directory, each with its address
  Null,        \* the empty string: no wallet, no address; a null timer
  MaxCalls,    \* bound on requests in flight
  MaxTimers    \* bound on live intervals

ASSUME MiningBounds ==
  MaxCalls \in Nat \ {0} /\ MaxTimers \in Nat \ {0} /\ Null \notin WalletNames \cup 1 .. MaxTimers

VARIABLES
  wallet,       \* State.walletName, and the wallet open in wallet-rpc
  address,      \* State.address
  miningTab,    \* State.activeTab = 'mining'
  field,        \* the value of the read-only input mining-address
  active,       \* State.miningActive
  statusTimer,  \* State.miningStatusTimer
  timers,       \* the intervals that are set
  calls,        \* calls[c]: the request in slot c
  miner         \* the address the daemon's miner works for, Null when stopped

miningVars == <<wallet, address, miningTab, field, active, statusTimer, timers,
                calls, miner>>
page == <<wallet, address, miningTab, field>>

Slots == 1 .. MaxCalls
Timers == 1 .. MaxTimers

(* A call is sent, then answered, then resumed by the page, which frees its *)
(* slot.  A late call is one the page has given up but the daemon has not   *)
(* seen yet.  "nexus" stands for the awaits that end loadAddress.           *)
Free == [op |-> "none", addr |-> Null, stage |-> "free", reply |-> "none"]
Sent(op, a) == [op |-> op, addr |-> a, stage |-> "sent", reply |-> "none"]

FreeSlots == {c \in Slots : calls[c] = Free}
Pending(op) == {c \in Slots : calls[c].op = op /\ calls[c].stage # "late"}
NewTimer == Min(Timers \ timers)

MiningInit ==
  /\ wallet = Null /\ address = Null /\ miningTab = FALSE /\ field = Null
  /\ active = FALSE /\ statusTimer = Null /\ timers = {}
  /\ calls = [c \in Slots |-> Free]
  /\ miner = Null

----------------------------------------------------------------------------
(* What the user does.                                                      *)

(* A successful openWallet: main screen with the tab that was last shown.   *)
(* How wallets are opened and closed in steps is WalletSession's subject.   *)
OpenWallet(w) ==
  /\ wallet = Null
  /\ wallet' = w
  /\ address' = Null
  /\ UNCHANGED <<miningTab, field, active, statusTimer, timers, calls, miner>>

(* switchWallet resets the name, the address and the refresh timers; the    *)
(* mining tab, its timer and the daemon's miner are left as they are.       *)
LeaveWallet ==
  /\ wallet # Null
  /\ wallet' = Null
  /\ address' = Null
  /\ UNCHANGED <<miningTab, field, active, statusTimer, timers, calls, miner>>

(* initMiningTab copies a known address, and asks for an unknown one.       *)
ShowMiningTab ==
  /\ wallet # Null
  /\ miningTab' = TRUE
  /\ IF address # Null
     THEN field' = address /\ UNCHANGED calls
     ELSE /\ FreeSlots # {}
          /\ calls' = [calls EXCEPT ![Min(FreeSlots)] = Sent("address", Null)]
          /\ UNCHANGED field
  /\ UNCHANGED <<wallet, address, active, statusTimer, timers, miner>>

ShowOtherTab ==
  /\ wallet # Null /\ miningTab
  /\ miningTab' = FALSE
  /\ UNCHANGED <<wallet, address, field, active, statusTimer, timers, calls, miner>>

(* startMining refuses an empty field; nothing stops a second click while   *)
(* the first request is still pending.                                      *)
StartMining ==
  /\ field # Null
  /\ FreeSlots # {}
  /\ Cardinality(timers) + Cardinality(Pending("start")) < MaxTimers
  /\ calls' = [calls EXCEPT ![Min(FreeSlots)] = Sent("start", field)]
  /\ UNCHANGED <<statusTimer, timers>>

(* stopMining clears the interval it knows of before it asks the daemon.    *)
StopMining(slot) ==
  /\ timers' = timers \ {statusTimer}
  /\ statusTimer' = Null
  /\ calls' = [calls EXCEPT ![slot] = Sent("stop", Null)]

ToggleMining ==
  /\ wallet # Null /\ miningTab
  /\ IF active
     THEN FreeSlots # {} /\ StopMining(Min(FreeSlots))
     ELSE StartMining
  /\ UNCHANGED <<page, active, miner>>

----------------------------------------------------------------------------
(* The servers.                                                             *)

(* on_start_mining, on_stop_mining and on_mining_status of the daemon, and  *)
(* get_address of wallet-rpc.  A start may be refused, and the status says  *)
(* so, but miner-start answers ok whatever the status is.                   *)
StartServed(a) == \/ miner = Null /\ miner' = a
                  \/ UNCHANGED miner
StopServed == miner' = Null

(* The reply to a request that only reads. *)
Reading(call) ==
  CASE call.op = "status" -> [call EXCEPT !.reply = IF miner # Null THEN "running" ELSE "idle"]
    [] call.op = "address" -> [call EXCEPT !.addr = wallet,
                                           !.reply = IF wallet = Null THEN "error" ELSE "ok"]
    [] OTHER -> [call EXCEPT !.reply = "ok"]

Serve(c) ==
  /\ calls[c].stage \in {"sent", "late"}
  /\ CASE calls[c].op = "start" -> StartServed(calls[c].addr)
       [] calls[c].op = "stop" -> StopServed
       [] OTHER -> UNCHANGED miner
  /\ calls' = [calls EXCEPT ![c] = IF @.stage = "late" THEN Free
                                   ELSE [Reading(@) EXCEPT !.stage = "answered"]]
  /\ UNCHANGED <<page, active, statusTimer, timers>>

(* The operator stops the daemon's miner at the daemon itself. *)
StoppedElsewhere ==
  /\ miner # Null
  /\ miner' = Null
  /\ UNCHANGED <<page, active, statusTimer, timers, calls>>

----------------------------------------------------------------------------
(* The continuations of the page.  rest is what the slot holds afterwards.  *)

StartDone(c, ok, rest) ==
  /\ IF ok
     THEN /\ active' = TRUE
          /\ statusTimer' = NewTimer
          /\ timers' = timers \cup {NewTimer}
     ELSE UNCHANGED <<active, statusTimer, timers>>
  /\ calls' = [calls EXCEPT ![c] = rest]
  /\ UNCHANGED page

(* Variant: the button follows the daemon's answer. *)
StopDoneIfStopped(c, rest) ==
  /\ active' = (miner # Null)
  /\ calls' = [calls EXCEPT ![c] = rest]
  /\ UNCHANGED <<page, statusTimer, timers>>

StopDone(c, rest) ==
  /\ active' = FALSE
  /\ calls' = [calls EXCEPT ![c] = rest]
  /\ UNCHANGED <<page, statusTimer, timers>>

(* Variant: a tick never stops mining. *)
StatusDoneWatching(c, running) ==
  /\ calls' = [calls EXCEPT ![c] = Free]
  /\ UNCHANGED <<page, active, statusTimer, timers>>

(* A tick that does not hear of a running miner stops it: a status that     *)
(* could not be read has no field running either.                           *)
StatusDone(c, running) ==
  /\ IF running
     THEN calls' = [calls EXCEPT ![c] = Free] /\ UNCHANGED <<statusTimer, timers>>
     ELSE StopMining(c)
  /\ UNCHANGED <<page, active>>

(* loadAddress keeps the address it was given, then awaits the Nexus loads. *)
AddressDone(c, a) ==
  /\ address' = a
  /\ calls' = [calls EXCEPT ![c] = Sent("nexus", Null)]
  /\ UNCHANGED <<wallet, miningTab, field, active, statusTimer, timers>>

(* The rest of initMiningTab. *)
FieldDone(c) ==
  /\ field' = IF address = Null THEN field ELSE address
  /\ calls' = [calls EXCEPT ![c] = Free]
  /\ UNCHANGED <<wallet, address, miningTab, active, statusTimer, timers>>

Continue(c, reply, rest) ==
  LET op == calls[c].op IN
  \/ op = "start" /\ StartDone(c, reply = "ok", rest)
  \/ op = "stop" /\ StopDone(c, rest)
  \/ op = "status" /\ StatusDone(c, reply = "running")
  \/ op = "address" /\ reply = "ok" /\ AddressDone(c, calls[c].addr)
  \/ op = "address" /\ reply # "ok" /\ FieldDone(c)
  \/ op = "nexus" /\ FieldDone(c)

Resume(c) ==
  /\ calls[c].stage = "answered"
  /\ Continue(c, calls[c].reply, Free)
  /\ UNCHANGED miner

(* The ten second timeout, or a connection that fails: the page sees an     *)
(* error while the request may still be under way.                          *)
TimeOut(c) ==
  /\ calls[c].stage = "sent"
  /\ \E rest \in {Free, [calls[c] EXCEPT !.stage = "late"]} : Continue(c, "error", rest)
  /\ UNCHANGED miner

(* setInterval: a tick asks for the status, whatever earlier ticks await.   *)
TimerFires(t) ==
  /\ t \in timers
  /\ FreeSlots # {}
  /\ calls' = [calls EXCEPT ![Min(FreeSlots)] = Sent("status", Null)]
  /\ UNCHANGED <<page, active, statusTimer, timers, miner>>

MiningNext ==
  \/ \E w \in WalletNames : OpenWallet(w)
  \/ LeaveWallet \/ ShowMiningTab \/ ShowOtherTab \/ ToggleMining
  \/ \E c \in Slots : Serve(c) \/ Resume(c) \/ TimeOut(c)
  \/ StoppedElsewhere
  \/ \E t \in Timers : TimerFires(t)

(* Intervals fire, and every request ends: it is answered or it times out.  *)
(* A tick waits for a slot only because slots are bounded, hence SF.        *)
MiningFairness ==
  /\ \A c \in Slots : WF_miningVars(Serve(c) \/ TimeOut(c)) /\ WF_miningVars(Resume(c))
  /\ \A t \in Timers : SF_miningVars(TimerFires(t))

MiningSpec == MiningInit /\ [][MiningNext]_miningVars
MiningFairSpec == MiningSpec /\ MiningFairness
----------------------------------------------------------------------------
(* Properties.                                                              *)

(* While the button says "Stop Mining" somebody watches the miner: the page *)
(* still has its status interval, or a stop is under way whose end switches *)
(* the button back.  Late ticks, double clicks and timed out requests of    *)
(* earlier rounds must not leave an active tab that nothing polls.          *)
PolledWhileActive ==
  active => statusTimer # Null \/ Pending("stop") # {}

(* A miner that stopped for any reason (at the daemon, by a late request of *)
(* the page) does not stay "Stop Mining" on the page for ever.              *)
StopIsNoticed ==
  (active /\ miner = Null) ~> (~active \/ miner # Null)
============================================================================
