------------------------------ MODULE BridgeIn ------------------------------
(* Bridging CRYLO to Nexus: startCryLoBridgeIn cuts the amount into chunks  *)
(* and, for each, asks the bridge service for a payment id and pays it with *)
(* transfer_split; then pollCryLoBridgeStatus waits for the mint.           *)
(*                                                                          *)
(* Each call of startCryLoBridgeIn is a session; nothing stops a second     *)
(* one from starting while the first still runs.  The handler is cut at its *)
(* awaits.  A transfer that the page has given up may still be made.        *)
EXTENDS Naturals, Sequences, FiniteSets, FiniteSetsExt, Functions

CONSTANTS
  Sessions,    \* calls of startCryLoBridgeIn
  Wallets,     \* CryLo wallets, each with its bound Nexus address
  Amounts,     \* amounts the user enters, in tenths of the smallest unit
  MaxPayments, \* bound on payment ids the service hands out
  MaxClearing, \* bound on handlers about to remove the pending record
  ChunkSize,   \* CHUNK_SIZE, in the smallest unit
  Limit,       \* the limit per session, likewise
  Plain,       \* from this amount on a number prints without an exponent
  NoOne

Payments == 1 .. MaxPayments

ASSUME BridgeBounds ==
  /\ Amounts \subseteq Nat /\ MaxPayments \in Nat /\ MaxClearing \in Nat
  /\ ChunkSize \in Nat \ {0} /\ Limit \in Nat /\ Plain \in Nat \ {0}
  /\ NoOne \notin Sessions /\ NoOne \notin Payments

VARIABLES
  session,   \* session[s]: one run of the handler
  deposit,   \* deposit[p]: what the service and the chain know of payment p
  current,   \* the wallet that is open: State.address, State.nexusAddress
  timer,     \* cryloBridgePollTimer: the payment its interval asks for
  ticks,     \* status requests of intervals under way
  clearing,  \* handlers that have yet to remove the pending record
  pending,   \* localStorage cryloBridgePending
  status     \* what bridge-status says

bridgeVars == <<session, deposit, current, timer, ticks, clearing, pending, status>>
polling == <<timer, ticks, clearing>>

Idle == [stage |-> "idle", asked |-> 0, chunks |-> <<>>, target |-> NoOne,
         from |-> NoOne, pay |-> NoOne, sent |-> <<>>]
Unused == [amount |-> 0, target |-> NoOne, by |-> NoOne, made |-> 0,
           late |-> FALSE, minted |-> FALSE]

BridgeInit ==
  /\ session = [s \in Sessions |-> Idle]
  /\ deposit = [p \in Payments |-> Unused]
  /\ current \in Wallets
  /\ timer = NoOne /\ ticks = {} /\ clearing = 0
  /\ pending = {} /\ status = "idle"

----------------------------------------------------------------------------
(* toFixed(11) of n tenths of a unit, in units: the nearest, half a unit    *)
(* going up.                                                                *)
toFixed(n) == (n + 5) \div 10

(* The while loop: chunks of at most CHUNK_SIZE that make up the amount.    *)
(* Both the chunk and what remains are rounded, so only the first round can *)
(* see a fraction of a unit.                                                *)
Chunks[n \in Nat] ==
  IF n = 0 THEN <<>>
  ELSE LET chunk == Min({ChunkSize, n})
       IN <<chunk>> \o Chunks[n - chunk]

ChunksOf(n) ==
  LET chunk == Min({10 * ChunkSize, n})
  IN <<toFixed(chunk)>> \o Chunks[toFixed(n - chunk)]

(* cryloToAtomic(String(chunk)): decimalToAtomic takes digits and a point   *)
(* and no zero, and String gives a small number an exponent.                *)
Converts(chunk) == chunk >= Plain

(* The head of the loop for session s: the next request, or an error thrown *)
(* before it.  State.address is read here, the target was read once.        *)
NextChunk(s, r) ==
  IF Converts(Head(r.chunks))
  THEN /\ session' = [session EXCEPT ![s] = [r EXCEPT !.stage = "asking", !.from = current, !.pay = NoOne]]
       /\ UNCHANGED status
  ELSE /\ session' = [session EXCEPT ![s] = [r EXCEPT !.stage = "failed"]]
       /\ status' = "error"

Fail(s) ==
  /\ session' = [session EXCEPT ![s].stage = "failed"]
  /\ status' = "error"

Start(s, n) ==
  /\ session[s] = Idle
  /\ n > 0
  /\ IF n > 10 * Limit
     THEN status' = "error" /\ UNCHANGED session
     ELSE NextChunk(s, [Idle EXCEPT !.asked = toFixed(n), !.chunks = ChunksOf(n), !.target = current])
  /\ UNCHANGED <<deposit, current, polling, pending>>

(* Variant: the mint target is read again for every chunk. *)
RequestServedForShown(s) ==
  /\ session[s].stage = "asking"
  /\ \E p \in Payments :
       /\ deposit[p] = Unused
       /\ \A q \in Payments : deposit[q] = Unused => p <= q
       /\ deposit' = [deposit EXCEPT ![p].amount = Head(session[s].chunks),
                                     ![p].target = current, ![p].by = s]
       /\ session' = [session EXCEPT ![s].stage = "sending", ![s].pay = p]
  /\ UNCHANGED <<current, polling, pending, status>>

(* The bridge service takes a request and hands out a payment id; the       *)
(* answer may be lost.                                                      *)
RequestServed(s) ==
  /\ session[s].stage = "asking"
  /\ \E p \in Payments :
       /\ deposit[p] = Unused
       /\ \A q \in Payments : deposit[q] = Unused => p <= q
       /\ deposit' = [deposit EXCEPT ![p].amount = Head(session[s].chunks),
                                     ![p].target = session[s].target, ![p].by = s]
       /\ \/ /\ session' = [session EXCEPT ![s].stage = "sending", ![s].pay = p]
             /\ UNCHANGED status
          \/ Fail(s)
  /\ UNCHANGED <<current, polling, pending>>

RequestFailed(s) ==
  /\ session[s].stage = "asking"
  /\ Fail(s)
  /\ UNCHANGED <<deposit, current, polling, pending>>

(* Variant: a transfer that times out is sent again. *)
TransferRetried(s) ==
  /\ session[s].stage = "sending"
  /\ deposit[session[s].pay].made < 2
  /\ deposit' = [deposit EXCEPT ![session[s].pay].made = @ + 1]
  /\ UNCHANGED <<session, current, polling, pending, status>>

(* wallet-rpc makes the transfer a session waits for. *)
Transfer(s) ==
  /\ session[s].stage = "sending"
  /\ deposit[session[s].pay].made = 0
  /\ deposit' = [deposit EXCEPT ![session[s].pay].made = 1]
  /\ UNCHANGED <<session, current, polling, pending, status>>

(* Not enough unlocked money, or another error of transfer_split. *)
TransferFailed(s) ==
  /\ session[s].stage = "sending"
  /\ deposit[session[s].pay].made = 0
  /\ Fail(s)
  /\ UNCHANGED <<deposit, current, polling, pending>>

(* The two minute timeout: the page gives up, wallet-rpc may not have.      *)
TransferTimedOut(s) ==
  /\ session[s].stage = "sending"
  /\ deposit' = [deposit EXCEPT ![session[s].pay].late = (@ \/ deposit[session[s].pay].made = 0)]
  /\ Fail(s)
  /\ UNCHANGED <<current, polling, pending>>

LateTransfer(p) ==
  /\ deposit[p].late
  /\ deposit' = [deposit EXCEPT ![p].late = FALSE, ![p].made = @ + 1]
  /\ UNCHANGED <<session, current, polling, pending, status>>

(* transfer_split answered: the next chunk, or the pending record and the   *)
(* poll for the first payment.                                              *)
TransferDone(s) ==
  LET r == [session[s] EXCEPT !.sent = Append(@, session[s].pay), !.chunks = Tail(@)] IN
  /\ session[s].stage = "sending"
  /\ deposit[session[s].pay].made = 1
  /\ IF r.chunks # <<>>
     THEN NextChunk(s, r) /\ UNCHANGED <<timer, pending>>
     ELSE /\ session' = [session EXCEPT ![s] = [r EXCEPT !.stage = "done"]]
          /\ pending' = Range(r.sent)
          /\ timer' = r.sent[1]
          /\ status' = "waiting"
  /\ UNCHANGED <<deposit, current, ticks, clearing>>

(* The bridge signers mint a deposit they have seen paid. *)
Mint(p) ==
  /\ deposit[p].made > 0 /\ ~deposit[p].minted
  /\ deposit' = [deposit EXCEPT ![p].minted = TRUE]
  /\ UNCHANGED <<session, current, polling, pending, status>>

----------------------------------------------------------------------------
(* Polling.  Ticks for one payment that are under way together behave alike *)
(* and are one element of ticks.                                            *)
Tick ==
  /\ timer # NoOne
  /\ ticks' = ticks \cup {[pay |-> timer, answer |-> "none"]}
  /\ UNCHANGED <<session, deposit, current, timer, clearing, pending, status>>

(* The service tells what it knows, or cannot be reached. *)
Answered(t, a) ==
  /\ t \in ticks /\ t.answer = "none"
  /\ ticks' = (ticks \ {t}) \cup {[t EXCEPT !.answer = a]}
  /\ UNCHANGED <<session, deposit, current, timer, clearing, pending, status>>
StatusServed(t) == Answered(t, IF deposit[t.pay].minted THEN "processed" ELSE "waiting")
StatusFailed(t) == Answered(t, "error")

(* Mutant of TickDone: any answer of the service counts as processed. *)
TickDoneAny(t) ==
  /\ t \in ticks /\ t.answer # "none"
  /\ ticks' = ticks \ {t}
  /\ timer' = IF t.answer = "error" THEN timer ELSE NoOne
  /\ status' = IF t.answer = "error" THEN "error" ELSE "completed"
  /\ clearing < MaxClearing /\ clearing' = clearing + 1
  /\ UNCHANGED <<session, deposit, current, pending>>

(* A processed payment clears whatever interval the variable holds now.     *)
TickDone(t) ==
  /\ t \in ticks /\ t.answer # "none"
  /\ ticks' = ticks \ {t}
  /\ timer' = IF t.answer = "processed" THEN NoOne ELSE timer
  /\ status' = CASE t.answer = "processed" -> "completed"
                 [] t.answer = "error" -> "error"
                 [] OTHER -> "waiting"
  /\ t.answer = "processed" => clearing < MaxClearing
  /\ clearing' = IF t.answer = "processed" THEN clearing + 1 ELSE clearing
  /\ UNCHANGED <<session, deposit, current, pending>>

(* After its refreshes the handler of a processed payment removes the record. *)
RemovePending ==
  /\ clearing > 0
  /\ clearing' = clearing - 1
  /\ pending' = {}
  /\ UNCHANGED <<session, deposit, current, timer, ticks, status>>

----------------------------------------------------------------------------
ChangeWallet(w) ==
  /\ current' = w
  /\ UNCHANGED <<session, deposit, polling, pending, status>>

(* The application ends and starts again: the record stays, and nothing     *)
(* reads it.  wallet-rpc ends too, with what it had not begun.              *)
RestartPage ==
  /\ session' = [s \in Sessions |-> IF session[s].stage \in {"asking", "sending"}
                                    THEN [session[s] EXCEPT !.stage = "failed"] ELSE session[s]]
  /\ deposit' = [p \in Payments |-> [deposit[p] EXCEPT !.late = FALSE]]
  /\ timer' = NoOne /\ ticks' = {} /\ clearing' = 0 /\ status' = "idle"
  /\ UNCHANGED <<current, pending>>

BridgeNext ==
  \/ \E s \in Sessions :
       \/ \E n \in Amounts : Start(s, n)
       \/ RequestServed(s) \/ RequestFailed(s)
       \/ Transfer(s) \/ TransferFailed(s) \/ TransferTimedOut(s) \/ TransferDone(s)
  \/ \E p \in Payments : LateTransfer(p) \/ Mint(p)
  \/ Tick \/ (\E t \in ticks : StatusServed(t) \/ StatusFailed(t) \/ TickDone(t)) \/ RemovePending
  \/ \E w \in Wallets : ChangeWallet(w)
  \/ RestartPage

BridgeSpec == BridgeInit /\ [][BridgeNext]_bridgeVars

----------------------------------------------------------------------------
(* Properties.                                                              *)

PaidFor(s) == {p \in Payments : deposit[p].by = s /\ deposit[p].made > 0}

(* What session s has paid, by payment, and the sum of such amounts. *)
Paid(s) == [p \in Payments |-> IF deposit[p].by = s THEN deposit[p].made * deposit[p].amount ELSE 0]
Sum(v) ==
  LET upTo[n \in 0 .. MaxPayments] == IF n = 0 THEN 0 ELSE upTo[n - 1] + v[n]
  IN upTo[MaxPayments]

(* Whatever times out, is lost or is restarted, a session never moves more  *)
(* CRYLO to the bridge than the user entered, to the nearest unit.          *)
NeverOverpays == \A s \in Sessions : Sum(Paid(s)) <= session[s].asked

(* A session that reaches "waiting for CryLo confirmations" has paid the    *)
(* whole amount, in deposits it lists, each to the Nexus address that was   *)
(* bound when it began: no chunk is lost or sent twice between the requests *)
(* of two sessions and a change of wallet.                                  *)
DoneIsWhole ==
  \A s \in Sessions : session[s].stage = "done" =>
    /\ Sum(Paid(s)) = session[s].asked
    /\ Range(session[s].sent) = PaidFor(s)
    /\ \A p \in PaidFor(s) : deposit[p].target = session[s].target

(* "Mint completed - wCRYLO received." (electron/src/app.js): however late   *)
(* the answers come, the page says so only when the first deposit, the one   *)
(* it polls for, of a finished session has been minted.                      *)
CompletedIsMinted ==
  status = "completed" =>
    \E s \in Sessions : session[s].stage = "done" /\ deposit[session[s].sent[1]].minted
============================================================================
