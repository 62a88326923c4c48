---------------------------- MODULE WalletProofs -----------------------------
(***************************************************************************)
(* Proofs about the wallet that is open, the transactions it sends on      *)
(* Nexus, and the processes behind it: WalletSession, NexusActions and     *)
(* BackendLifecycle, for any number of wallets, keys, requests in flight,  *)
(* clicks, launches and processes.                                         *)
(*                                                                         *)
(* WalletSession.  No Nexus key that the bridge service or the page knows  *)
(* is ever without its key file, also when the names of several wallets    *)
(* lead to one file.  KnownKeysOnDisk is not inductive alone: the key a    *)
(* registration carries, and the one a reply brings, must be on disk       *)
(* already while they are on their way, and no step may take a key file    *)
(* away (KeyInv).                                                          *)
(*                                                                         *)
(* The page works on the wallet it names: OrderInv says what an orderly    *)
(* session has under way at each point of a change.  A key is bound to the *)
(* address it was asked for: TurnInv follows the addresses on their way.   *)
(***************************************************************************)
EXTENDS WalletSession, NexusActions, BackendLifecycle, WellFoundedInduction, TLAPS

(* Leaves are for Zenon unless they say SMT. *)
USE ZenonT(30)

-----------------------------------------------------------------------------
(* The session: WalletSession. *)

Ops == SessionOps \cup AddressOps \cup KeyOps \cup {"none"}

(* The requests and the replies whose keys are in K. *)
Request(K) ==
  [op : Ops, name : Names \cup {None}, addr : Addrs \cup {None}, key : K \cup {None}, late : BOOLEAN]

Carries(op, val, K) ==
  /\ op \in AddressOps => val \in Addrs \cup {None}
  /\ op \in KeyOps => val \in K \cup {None}

Replied(K) ==
  {r \in [op : Ops, name : Names \cup {None}, addr : Addrs \cup {None}, ok : BOOLEAN,
          val : Addrs \cup K \cup {None}] : Carries(r.op, r.val, K)}

(* The inductive invariant. *)
KeyInv ==
  /\ screen \in {"setup", "main"}
  /\ walletName \in Names \cup {None} /\ address \in Addrs \cup {None}
  /\ open \in Names \cup {None} /\ disk \in [Names -> Addrs \cup {None}]
  /\ keyFile \in [Files -> [crylo : Addrs, nexus : Keys] \cup {None}]
  /\ wire \in [Slots -> Request(KeysOnDisk)]
  /\ inbox \in Seq(Replied(KeysOnDisk))
  /\ nexus \in KeysOnDisk \cup {None}
  /\ registered \subseteq KeysOnDisk

-----------------------------------------------------------------------------
(* A smallest key can be chosen among those that are left. *)
LEMMA MinIn ==
  ASSUME NEW S, S \subseteq Nat, S # {}
  PROVE  Min(S) \in S
  <1> DEFINE R == OpToRel(<, Nat)
  <1>1. R = {p \in Nat \X Nat : p[1] < p[2]} /\ IsWellFoundedOn(R, Nat)
    BY ZenonT(30), NatLessThanWellFounded DEF OpToRel
  <1> HIDE DEF R
  <1>2. PICK x \in S : \A y \in S : <<y, x>> \notin R
    BY <1>1, WFMin
  <1>3. ASSUME NEW y \in S PROVE x <= y
    <2>1. <<y, x>> \notin {p \in Nat \X Nat : p[1] < p[2]}
      BY <1>1, <1>2
    <2>2. x \in Nat /\ y \in Nat
      OBVIOUS
    <2> QED BY SMTT(30), <2>1, <2>2
  <1> QED BY <1>3 DEF Min

(* More keys on disk: what was on its way still carries keys on disk. *)
LEMMA MoreKeys ==
  ASSUME NEW K, NEW L, K \subseteq L
  PROVE  Request(K) \subseteq Request(L) /\ Replied(K) \subseteq Replied(L)
  <1>1. Request(K) \subseteq Request(L)
    BY DEF Request
  <1>2. Replied(K) \subseteq Replied(L)
    BY DEF Replied, Carries
  <1> QED BY <1>1, <1>2

LEMMA ReqCarriesNoKey ==
  ASSUME NEW K, NEW op \in Ops, NEW n \in Names \cup {None}, NEW a \in Addrs \cup {None}
  PROVE  Req(op, n, a) \in Request(K)
  BY DEF Req, Request

LEMMA FreeCarriesNoKey ==
  ASSUME NEW K
  PROVE  Free \in Request(K)
  BY ReqCarriesNoKey DEF Free, Ops

LEMMA SendKeeps ==
  ASSUME NEW K, wire \in [Slots -> Request(K)], NEW r \in Request(K), Send(r)
  PROVE  wire' \in [Slots -> Request(K)]
  BY DEF Send

LEMMA AnswerKeeps ==
  ASSUME NEW K, wire \in [Slots -> Request(K)], inbox \in Seq(Replied(K)),
         NEW c \in Slots, NEW ok \in BOOLEAN, NEW val \in Addrs \cup K \cup {None},
         Carries(wire[c].op, val, K), Answer(c, ok, val)
  PROVE  wire' \in [Slots -> Request(K)] /\ inbox' \in Seq(Replied(K))
  <1>1. wire' \in [Slots -> Request(K)]
    BY FreeCarriesNoKey DEF Answer
  <1>2. Reply(wire[c], ok, val) \in Replied(K)
    <2>1. wire[c] \in Request(K)
      OBVIOUS
    <2> QED BY <2>1 DEF Reply, Replied, Request, Carries
  <1>3. inbox' \in Seq(Replied(K))
    BY SMTT(30), <1>2 DEF Answer
  <1> QED BY <1>1, <1>3

LEMMA AppendKeeps ==
  ASSUME NEW S, NEW s \in Seq(S), NEW e \in S
  PROVE  Append(s, e) \in Seq(S)
  BY SMTT(30)

LEMMA SameFiles ==
  ASSUME keyFile' = keyFile
  PROVE  KeysOnDisk' = KeysOnDisk
  BY DEF KeysOnDisk

LEMMA InKeysOnDisk ==
  ASSUME NEW f \in Files, keyFile[f] # None
  PROVE  keyFile[f].nexus \in KeysOnDisk
  BY DEF KeysOnDisk

(* A new file, where there was none, leaves the other keys on disk. *)
LEMMA NewFile ==
  ASSUME KeyInv, NEW f \in Files, keyFile[f] = None,
         NEW a \in Addrs, NEW k \in Keys,
         keyFile' = [keyFile EXCEPT ![f] = [crylo |-> a, nexus |-> k]]
  PROVE  /\ keyFile' \in [Files -> [crylo : Addrs, nexus : Keys] \cup {None}]
         /\ KeysOnDisk \subseteq KeysOnDisk'
         /\ k \in KeysOnDisk'
  <1>1. keyFile' \in [Files -> [crylo : Addrs, nexus : Keys] \cup {None}]
    BY DEF KeyInv
  <1>2. \A g \in Files : keyFile[g] # None => keyFile'[g] = keyFile[g]
    BY DEF KeyInv
  <1>3. keyFile'[f] = [crylo |-> a, nexus |-> k] /\ keyFile'[f] # None
    BY SMTT(30), SessionBounds DEF KeyInv, Keys
  <1>4. KeysOnDisk \subseteq KeysOnDisk'
    BY <1>2 DEF KeysOnDisk
  <1>5. k \in KeysOnDisk'
    BY SMTT(30), <1>3 DEF KeysOnDisk
  <1> QED BY <1>1, <1>4, <1>5

-----------------------------------------------------------------------------
LEMMA InitKeyInv == Init => KeyInv
  <1> SUFFICES ASSUME Init PROVE KeyInv
    OBVIOUS
  <1>1. wire \in [Slots -> Request(KeysOnDisk)]
    BY FreeCarriesNoKey DEF Init
  <1>2. inbox \in Seq(Replied(KeysOnDisk))
    BY SMTT(30) DEF Init
  <1> QED BY <1>1, <1>2 DEF Init, KeyInv

(* A step of the page that starts a request. *)
LEMMA RequestKeeps ==
  ASSUME KeyInv, NEW r \in Request(KeysOnDisk), Send(r), UNCHANGED <<view, state, inbox, store>>
  PROVE  KeyInv'
  <1>1. KeysOnDisk' = KeysOnDisk
    BY SameFiles DEF store
  <1>2. wire' \in [Slots -> Request(KeysOnDisk)]
    BY SendKeeps DEF KeyInv
  <1> QED BY <1>1, <1>2 DEF KeyInv, view, state, store

LEMMA WalletRpcKeeps ==
  ASSUME KeyInv, NEW c \in Slots, WalletRpc(c)
  PROVE  KeyInv'
  <1>1. KeysOnDisk' = KeysOnDisk
    BY SameFiles DEF WalletRpc
  <1>2. ASSUME NEW ok \in BOOLEAN, NEW val \in Addrs \cup {None}, wire[c].op \notin KeyOps,
               Answer(c, ok, val), open' \in Names \cup {None}, disk' \in [Names -> Addrs \cup {None}]
        PROVE  KeyInv'
    <2>1. Carries(wire[c].op, val, KeysOnDisk)
      BY <1>2 DEF Carries
    <2>2. wire' \in [Slots -> Request(KeysOnDisk)] /\ inbox' \in Seq(Replied(KeysOnDisk))
      BY <1>2, <2>1, AnswerKeeps DEF KeyInv
    <2> QED BY <1>1, <1>2, <2>2 DEF KeyInv, WalletRpc, view, state
  <1>3. wire[c].name \in Names \cup {None}
    BY DEF KeyInv, Request
  <1>4. ASSUME NEW a \in Addrs, NewWallet(c, a) PROVE KeyInv'
    <2>1. wire[c].op \notin KeyOps /\ Answer(c, TRUE, None)
      BY <1>4 DEF NewWallet, KeyOps
    <2>2. open' \in Names \cup {None} /\ disk' \in [Names -> Addrs \cup {None}]
      BY <1>3, <1>4 DEF NewWallet, KeyInv
    <2> QED BY <1>2, <2>1, <2>2
  <1>5. CASE OpenServed(c)
    BY <1>2, <1>3, <1>5 DEF OpenServed, KeyOps, KeyInv
  <1>6. CASE CloseServed(c)
    BY <1>2, <1>6 DEF CloseServed, KeyOps, KeyInv
  <1>7. CASE ReadServed(c)
    <2>1. disk[open] \in Addrs \cup {None}
      BY <1>7 DEF ReadServed, KeyInv
    <2> QED BY <1>2, <1>7, <2>1 DEF ReadServed, KeyOps, AddressOps, KeyInv
  <1>8. CASE Refused(c)
    BY <1>2, <1>8 DEF Refused, KeyInv
  <1> QED BY <1>4, <1>5, <1>6, <1>7, <1>8 DEF WalletRpc

(* nexus-wallet-create uses the key of the file it finds, or writes a new    *)
(* file before anything learns of the key.                                  *)
LEMMA BindStartsKeeps ==
  ASSUME KeyInv, NEW c \in Slots, BindStarts(c), UNCHANGED <<view, state, open, disk>>
  PROVE  KeyInv'
  <1> DEFINE r == wire[c]
             f == FileOf(r.name)
             fresh == Keys \ (KeysOnDisk \cup registered)
  <1>1. r \in Request(KeysOnDisk) /\ r.name \in Names /\ r.addr \in Addrs
    BY DEF BindStarts, KeyInv, Request
  <1>2. f \in Files /\ KeyOnDisk(r.name) = keyFile[f]
    BY <1>1, SessionBounds DEF BindStarts, KeyOnDisk
  <1>3. ASSUME NEW k \in KeysOnDisk', wire' = [wire EXCEPT ![c].key = k],
               KeysOnDisk \subseteq KeysOnDisk',
               keyFile' \in [Files -> [crylo : Addrs, nexus : Keys] \cup {None}]
        PROVE  KeyInv'
    <2>1. Request(KeysOnDisk) \subseteq Request(KeysOnDisk') /\ Replied(KeysOnDisk) \subseteq Replied(KeysOnDisk')
      BY <1>3, MoreKeys
    <2>2. [r EXCEPT !.key = k] \in Request(KeysOnDisk')
      BY <1>1, <1>3, <2>1 DEF Request
    <2>3. wire' \in [Slots -> Request(KeysOnDisk')]
      BY <1>3, <2>1, <2>2 DEF KeyInv
    <2>4. inbox' \in Seq(Replied(KeysOnDisk'))
      BY SMTT(30), <2>1 DEF KeyInv, BindStarts
    <2> QED BY <1>3, <2>3, <2>4 DEF KeyInv, BindStarts, view, state
  <1>4. CASE keyFile[f] # None
    <2>1. wire' = [wire EXCEPT ![c].key = keyFile[f].nexus] /\ keyFile' = keyFile
      BY <1>2, <1>4 DEF BindStarts
    <2>2. KeysOnDisk' = KeysOnDisk /\ keyFile[f].nexus \in KeysOnDisk
      BY <1>2, <1>4, <2>1, SameFiles, InKeysOnDisk
    <2> QED BY <1>3, <2>1, <2>2 DEF KeyInv
  <1>5. CASE keyFile[f] = None
    <2>1. /\ fresh # {}
          /\ keyFile' = [keyFile EXCEPT ![f] = [crylo |-> r.addr, nexus |-> Min(fresh)]]
          /\ wire' = [wire EXCEPT ![c].key = Min(fresh)]
      BY <1>2, <1>5 DEF BindStarts
    <2>2. Min(fresh) \in Keys
      BY SMTT(30), <2>1, MinIn DEF Keys
    <2>3. /\ keyFile' \in [Files -> [crylo : Addrs, nexus : Keys] \cup {None}]
          /\ KeysOnDisk \subseteq KeysOnDisk'
          /\ Min(fresh) \in KeysOnDisk'
      BY <1>1, <1>2, <1>5, <2>1, <2>2, NewFile
    <2> QED BY <1>3, <2>1, <2>3
  <1> QED BY <1>4, <1>5

LEMMA MainProcessKeeps ==
  ASSUME KeyInv, NEW c \in Slots, MainProcess(c)
  PROVE  KeyInv'
  <1>1. UNCHANGED <<view, state, open, disk>>
    BY DEF MainProcess
  <1>2. wire[c] \in Request(KeysOnDisk)
    BY DEF KeyInv
  <1>3. ASSUME NEW ok \in BOOLEAN, NEW val \in KeysOnDisk \cup {None}, wire[c].op \in KeyOps,
               Answer(c, ok, val), keyFile' = keyFile, registered' \subseteq KeysOnDisk
        PROVE  KeyInv'
    <2>1. KeysOnDisk' = KeysOnDisk
      BY <1>3, SameFiles
    <2>2. Carries(wire[c].op, val, KeysOnDisk)
      BY <1>3 DEF Carries, KeyOps, AddressOps
    <2>3. wire' \in [Slots -> Request(KeysOnDisk)] /\ inbox' \in Seq(Replied(KeysOnDisk))
      BY <1>3, <2>2, AnswerKeeps DEF KeyInv
    <2> QED BY <1>1, <1>3, <2>1, <2>3 DEF KeyInv, view, state
  <1>4. CASE LoadServed(c)
    <2> DEFINE data == KeyOnDisk(wire[c].name)
               val == IF data # None /\ data.crylo = wire[c].addr THEN data.nexus ELSE None
    <2>1. data # None => data.nexus \in KeysOnDisk
      BY <1>2, SessionBounds, InKeysOnDisk DEF KeyOnDisk, Request
    <2>2. val \in KeysOnDisk \cup {None}
      BY <2>1
    <2>3. wire[c].op \in KeyOps /\ Answer(c, TRUE, val) /\ UNCHANGED <<keyFile, registered>>
      BY <1>4 DEF LoadServed, KeyOps
    <2> HIDE DEF val
    <2> QED BY <1>3, <2>2, <2>3 DEF KeyInv
  <1>5. CASE BindStarts(c)
    BY <1>1, <1>5, BindStartsKeeps
  <1>6. CASE BindRefused(c)
    BY <1>3, <1>6 DEF BindRefused, KeyOps, KeyInv
  <1>7. ASSUME NEW accepted \in BOOLEAN, NEW ok \in BOOLEAN, BindEnds(c, accepted, ok)
        PROVE  KeyInv'
    <2>1. wire[c].key \in KeysOnDisk
      BY <1>2, <1>7 DEF BindEnds, Request
    <2>2. registered' \subseteq KeysOnDisk
      BY <1>7, <2>1 DEF BindEnds, KeyInv
    <2>3. (IF ok THEN wire[c].key ELSE None) \in KeysOnDisk \cup {None}
      BY <2>1
    <2>4. /\ wire[c].op \in KeyOps /\ keyFile' = keyFile
          /\ Answer(c, ok, IF ok THEN wire[c].key ELSE None)
      BY <1>7 DEF BindEnds, KeyOps
    <2> QED BY <1>3, <2>2, <2>3, <2>4
  <1> QED BY <1>4, <1>5, <1>6, <1>7 DEF MainProcess

LEMMA TimeOutKeeps ==
  ASSUME KeyInv, NEW c \in Slots, TimeOut(c)
  PROVE  KeyInv'
  <1>1. KeysOnDisk' = KeysOnDisk
    BY SameFiles DEF TimeOut, store
  <1>2. wire[c] \in Request(KeysOnDisk) /\ wire[c].op \in SessionOps \cup AddressOps
    BY DEF KeyInv, TimeOut
  <1>3. Reply(wire[c], FALSE, None) \in Replied(KeysOnDisk)
    BY <1>2 DEF Reply, Replied, Request, Carries
  <1>4. [wire[c] EXCEPT !.late = TRUE] \in Request(KeysOnDisk)
    BY <1>2 DEF Request
  <1>5. wire' \in [Slots -> Request(KeysOnDisk)]
    BY <1>4, FreeCarriesNoKey DEF TimeOut, KeyInv
  <1>6. inbox' \in Seq(Replied(KeysOnDisk))
    <2>1. inbox \in Seq(Replied(KeysOnDisk)) /\ inbox' = Append(inbox, Reply(wire[c], FALSE, None))
      BY DEF TimeOut, KeyInv
    <2> QED BY <1>3, <2>1, AppendKeeps
  <1> QED BY <1>1, <1>5, <1>6 DEF KeyInv, TimeOut, view, state, store

(* The page takes a reply: what it shows is the key of the reply, of the     *)
(* last one, or none.                                                       *)
LEMMA ResumeKeeps ==
  ASSUME KeyInv, Resume
  PROVE  KeyInv'
  <1> DEFINE r == Head(inbox)
             K == KeysOnDisk
  <1>1. KeysOnDisk' = K
    BY SameFiles DEF Resume, store
  <1>2. inbox \in Seq(Replied(K)) /\ inbox # <<>> /\ inbox' = Tail(inbox)
    BY DEF Resume, KeyInv
  <1>3. r \in Replied(K) /\ inbox' \in Seq(Replied(K))
    BY SMTT(30), <1>2
  <1>4. ASSUME wire' \in [Slots -> Request(K)], walletName' \in Names \cup {None},
               address' \in Addrs \cup {None}, nexus' \in K \cup {None}
        PROVE  KeyInv'
    <2>1. screen' \in {"setup", "main"}
      BY DEF KeyInv, Resume, CloseDone, CreateDone, SeedDone, OpenDone, RestoreDone, SwitchDone, AddressDone,
        KeyDone, view
    <2> QED BY <1>1, <1>3, <1>4, <2>1 DEF KeyInv, Resume, store
  <1>5. /\ wire \in [Slots -> Request(K)] /\ walletName \in Names \cup {None}
        /\ address \in Addrs \cup {None} /\ nexus \in K \cup {None}
    BY DEF KeyInv
  <1>6. r.name \in Names \cup {None} /\ Carries(r.op, r.val, K)
    BY <1>3 DEF Replied
  <1> HIDE DEF r, K
  <1>7. CASE CloseDone(r)
    <2>1. Req(IF r.op = "closeToCreate" THEN "create" ELSE "open", r.name, None) \in Request(K)
      BY <1>6, ReqCarriesNoKey DEF Ops, SessionOps
    <2>2. wire' \in [Slots -> Request(K)]
      BY <1>5, <1>7, <2>1, SendKeeps DEF CloseDone
    <2> QED BY <1>4, <1>5, <1>7, <2>2 DEF CloseDone, state
  <1>8. CASE CreateDone(r)
    <2>1. Req("seed", r.name, None) \in Request(K)
      BY <1>6, ReqCarriesNoKey DEF Ops, SessionOps
    <2>2. wire' \in [Slots -> Request(K)]
      BY <1>5, <1>8, <2>1, SendKeeps DEF CreateDone
    <2> QED BY <1>4, <1>5, <1>8, <2>2 DEF CreateDone, state
  <1>9. CASE SeedDone(r)
    BY <1>4, <1>5, <1>6, <1>9 DEF SeedDone, Forget
  <1>10. CASE OpenDone(r)
    BY <1>4, <1>5, <1>6, <1>10 DEF OpenDone, Forget, state
  <1>11. CASE RestoreDone(r)
    BY <1>4, <1>5, <1>6, <1>11 DEF RestoreDone, Forget, state
  <1>12. CASE SwitchDone(r)
    BY <1>4, <1>5, <1>12 DEF SwitchDone
  <1>13. CASE AddressDone(r)
    <2>1. CASE r.ok
      <3>1. r.val \in Addrs \cup {None}
        BY <1>6, <1>13 DEF AddressDone, Carries
      <3>2. Req(IF r.op = "addressToBind" THEN "bind" ELSE "load", walletName, r.val) \in Request(K)
        BY <1>5, <3>1, ReqCarriesNoKey DEF Ops, KeyOps
      <3>3. wire' \in [Slots -> Request(K)]
        BY <1>5, <1>13, <2>1, <3>2, SendKeeps DEF AddressDone
      <3> QED BY <1>4, <1>5, <1>13, <2>1, <3>1, <3>3 DEF AddressDone
    <2>2. CASE ~r.ok
      BY <1>4, <1>5, <1>13, <2>2 DEF AddressDone
    <2> QED BY <2>1, <2>2
  <1>14. CASE KeyDone(r)
    <2>1. nexus' \in K \cup {None}
      BY <1>5, <1>6, <1>14 DEF KeyDone, Carries
    <2> QED BY <1>4, <1>5, <1>14, <2>1 DEF KeyDone
  <1> QED BY <1>7, <1>8, <1>9, <1>10, <1>11, <1>12, <1>13, <1>14 DEF Resume, r

LEMMA RestartKeeps ==
  ASSUME KeyInv, Restart
  PROVE  KeyInv'
  <1>1. KeysOnDisk' = KeysOnDisk
    BY SameFiles DEF Restart
  <1>2. wire' \in [Slots -> Request(KeysOnDisk)] /\ inbox' \in Seq(Replied(KeysOnDisk))
    BY SMTT(30), FreeCarriesNoKey DEF Restart
  <1> QED BY <1>1, <1>2 DEF KeyInv, Restart, Forget

LEMMA NextKeepsKeys == KeyInv /\ [Next]_vars => KeyInv'
  <1> SUFFICES ASSUME KeyInv, [Next]_vars PROVE KeyInv'
    OBVIOUS
  <1>1. ASSUME NEW op \in Ops, NEW n \in Names \cup {None}, NEW a \in Addrs \cup {None},
               Send(Req(op, n, a)), UNCHANGED <<view, state, inbox, store>>
        PROVE  KeyInv'
    BY <1>1, ReqCarriesNoKey, RequestKeeps
  <1>2. ASSUME NEW n \in Names, CreateWallet(n) \/ OpenWallet(n) PROVE KeyInv'
    BY <1>1, <1>2 DEF CreateWallet, OpenWallet, SetupRequest, Ops, SessionOps
  <1>3. ASSUME NEW n \in Names, NEW a \in Addrs, RestoreWallet(n, a) PROVE KeyInv'
    BY <1>1, <1>3 DEF RestoreWallet, SetupRequest, Ops, SessionOps
  <1>4. CASE Continue \/ Back \/ UNCHANGED vars
    BY <1>4, SameFiles DEF Continue, Back, vars, view, state, store, KeyInv
  <1>5. CASE SwitchWallet
    BY <1>1, <1>5 DEF SwitchWallet, Ops, SessionOps
  <1>6. CASE LoadAddress
    BY <1>1, <1>6 DEF LoadAddress, Ops, AddressOps
  <1>7. CASE LoadSavedNexus
    BY <1>1, <1>7 DEF LoadSavedNexus, Ops, AddressOps, KeyOps, KeyInv
  <1>8. CASE CreateBoundNexus
    BY <1>1, <1>8 DEF CreateBoundNexus, Ops, AddressOps, KeyOps, KeyInv
  <1>9. ASSUME NEW c \in Slots, WalletRpc(c) \/ MainProcess(c) \/ TimeOut(c) PROVE KeyInv'
    BY <1>9, WalletRpcKeeps, MainProcessKeeps, TimeOutKeeps
  <1> QED BY <1>2, <1>3, <1>4, <1>5, <1>6, <1>7, <1>8, <1>9, ResumeKeeps, RestartKeeps DEF Next

-----------------------------------------------------------------------------
(***************************************************************************)
(* What an orderly session keeps.  At most one session change is under     *)
(* way, on the wire or in the inbox; it is a switch on the main screen and *)
(* another change on the setup screen, and its form is not done with.      *)
(***************************************************************************)
Fits(op) == op \in SessionOps => (op = "closeToSwitch" <=> screen = "main") /\ ~canContinue

OneChange ==
  /\ \A c, d \in Slots : wire[c].op \in SessionOps /\ wire[d].op \in SessionOps => c = d
  /\ \A i, j \in DOMAIN inbox : inbox[i].op \in SessionOps /\ inbox[j].op \in SessionOps => i = j
  /\ \A c \in Slots, i \in DOMAIN inbox : ~(wire[c].op \in SessionOps /\ inbox[i].op \in SessionOps)

(* Reply k, if it brings an address, brings that of wallet n. *)
OfWallet(k, n) == inbox[k].op \in AddressOps /\ inbox[k].ok => inbox[k].val = disk[n]

(* A new or opened wallet is open by the time its reply is in the inbox, and *)
(* addresses that arrive after the reply are those of that wallet.          *)
Brings(i) ==
  /\ inbox[i].op = "create" /\ inbox[i].ok => open = inbox[i].name
  /\ inbox[i].op = "seed" \/ (inbox[i].op = "open" /\ inbox[i].ok)
       => /\ open = inbox[i].name
          /\ \A k \in DOMAIN inbox : k > i => OfWallet(k, inbox[i].name)

(* The page has settled on a wallet: it is open, unless a switch has just   *)
(* closed it, and all its addresses are those of that wallet.               *)
Settled ==
  /\ open # walletName => open = None /\ \E i \in DOMAIN inbox : inbox[i].op = "closeToSwitch"
  /\ address # None => address = disk[walletName]
  /\ \A k \in DOMAIN inbox : OfWallet(k, walletName)

Order ==
  /\ \A c \in Slots : ~wire[c].late /\ Fits(wire[c].op) /\ (wire[c].op = "seed" => open = wire[c].name)
  /\ \A i \in DOMAIN inbox : Fits(inbox[i].op) /\ Brings(i)
  /\ OneChange
  /\ canContinue => screen = "setup"
  /\ screen = "main" \/ canContinue => Settled

OrderInv == orderly => Order

(***************************************************************************)
(* What a session that was always in turn keeps besides: on the setup      *)
(* screen an address fetched for a bind finds no wallet named; a bind that *)
(* names a wallet has its address; and a key file has the address of a     *)
(* wallet whose name leads to it.                                          *)
(***************************************************************************)
Apart == FetchingToBind /\ screen = "setup" => walletName = None /\ ~canContinue /\ ~Changing

Holds(n, a) == n \in Names /\ a # None /\ a = disk[n]
InFile(n, k) == keyFile[FileOf(n)] # None /\ keyFile[FileOf(n)].nexus = k

Named(r) == r.op = "bind" /\ r.name # None /\ r.addr # None => r.addr = disk[r.name]
Keyed(r) == r.op = "bind" /\ r.key # None => Holds(r.name, r.addr) /\ InFile(r.name, r.key)
Filed(r) == r.op = "bind" /\ r.ok => Holds(r.name, r.addr) /\ InFile(r.name, r.val)

OfAName(n) == \E m \in Names : FileOf(m) = FileOf(n) /\ keyFile[FileOf(n)].crylo = disk[m]

Bound ==
  /\ \A c \in Slots : Named(wire[c]) /\ Keyed(wire[c])
  /\ \A n \in Names : keyFile[FileOf(n)] # None => OfAName(n)
  /\ \A i \in DOMAIN inbox : Filed(inbox[i])

Turn == orderly /\ Apart /\ Bound

TurnInv == inTurn => Turn

-----------------------------------------------------------------------------
LEMMA AppendIs ==
  ASSUME NEW S, NEW s \in Seq(S), NEW e \in S, NEW t, t = Append(s, e)
  PROVE  /\ Len(s) \in Nat /\ DOMAIN s = 1 .. Len(s)
         /\ DOMAIN t = 1 .. Len(s) + 1
         /\ \A i \in 1 .. Len(s) : t[i] = s[i]
         /\ t[Len(s) + 1] = e
  BY SMTT(30)

LEMMA TailIs ==
  ASSUME NEW S, NEW s \in Seq(S), s # <<>>, NEW t, t = Tail(s)
  PROVE  /\ Len(s) \in Nat /\ Len(s) > 0 /\ DOMAIN s = 1 .. Len(s)
         /\ DOMAIN t = 1 .. Len(s) - 1
         /\ \A i \in DOMAIN t : i \in Nat /\ i + 1 \in DOMAIN s /\ t[i] = s[i + 1]
         /\ Head(s) = s[1] /\ 1 \in DOMAIN s
  BY SMTT(30)

(* A request takes a slot that was free. *)
LEMMA SendTakes ==
  ASSUME NEW r, Send(r)
  PROVE  \E d \in Slots : wire[d] = Free /\ wire' = [wire EXCEPT ![d] = r]
  <1>1. FreeSlots \subseteq Slots /\ FreeSlots \subseteq Nat /\ FreeSlots # {}
    BY SMTT(30) DEF Send, FreeSlots, Slots
  <1>2. Min(FreeSlots) \in FreeSlots
    BY <1>1, MinIn
  <1> QED BY <1>1, <1>2 DEF Send, FreeSlots

(* A request put on the wire leaves the session in order: one that changes   *)
(* the session is the only one and fits the screen.                         *)
LEMMA StartKeepsOrder ==
  ASSUME KeyInv, Order, NEW d \in Slots, NEW r, wire[d] = Free, wire' = [wire EXCEPT ![d] = r],
         ~r.late, r.op \in SessionOps => ~Changing /\ Fits(r.op), r.op # "seed",
         UNCHANGED <<view, state, inbox, store>>
  PROVE  Order'
  <1>1. \A c \in Slots : wire'[c] = IF c = d THEN r ELSE wire[c]
    BY DEF KeyInv
  <1>2. UNCHANGED <<screen, canContinue, walletName, address, inbox, open, disk>>
    BY DEF view, state, store
  <1>3. \A c \in Slots : (~wire[c].late /\ Fits(wire[c].op) /\ (wire[c].op = "seed" => open = wire[c].name))'
    BY <1>1, <1>2 DEF Order, Fits, SessionOps
  <1>4. OneChange'
    BY SMTT(40), <1>1, <1>2 DEF Order, OneChange, Changing
  <1>5. \A i \in DOMAIN inbox' : (Fits(inbox[i].op) /\ Brings(i))'
    BY <1>2 DEF Order, Fits, Brings, OfWallet
  <1>6. (screen' = "main" \/ canContinue') => Settled'
    BY <1>2 DEF Order, Settled, OfWallet
  <1> QED BY <1>2, <1>3, <1>4, <1>5, <1>6 DEF Order

(* So does an answer: the reply to a session change is the only one, and     *)
(* only its request changed what is open.                                   *)
LEMMA AnswerKeepsOrder ==
  ASSUME KeyInv, Order, NEW c \in Slots, NEW ok \in BOOLEAN, NEW val,
         Reply(wire[c], ok, val) \in Replied(KeysOnDisk), Answer(c, ok, val),
         UNCHANGED <<view, state>>,
         wire[c].op \notin SessionOps \/ wire[c].op = "seed" => UNCHANGED <<open, disk>>,
         wire[c].op \in AddressOps /\ ok => open # None /\ val = disk[open],
         wire[c].op \in {"create", "open"} /\ ok => open' = wire[c].name,
         wire[c].op = "closeToSwitch" => disk' = disk /\ open' \in {open, None}
  PROVE  Order'
  <1> DEFINE n == Len(inbox)
             e == Reply(wire[c], ok, val)
  <1>1. ~wire[c].late /\ inbox \in Seq(Replied(KeysOnDisk))
    BY DEF Order, KeyInv
  <1>2. wire' = [wire EXCEPT ![c] = Free] /\ inbox' = Append(inbox, e)
    BY <1>1 DEF Answer
  <1>3. /\ n \in Nat /\ DOMAIN inbox = 1 .. n /\ DOMAIN inbox' = 1 .. n + 1
        /\ \A i \in 1 .. n : inbox'[i] = inbox[i]
        /\ inbox'[n + 1] = e
    <2>1. e \in Replied(KeysOnDisk)
      OBVIOUS
    <2> HIDE DEF e
    <2> QED BY SMTT(40), <1>1, <1>2, <2>1, AppendIs
  <1>4. \A d \in Slots : wire'[d] = IF d = c THEN Free ELSE wire[d]
    BY <1>2 DEF KeyInv
  <1>5. UNCHANGED <<screen, canContinue, walletName, address>>
    BY DEF view, state
  <1>6. e.op = wire[c].op /\ e.name = wire[c].name /\ e.ok = ok /\ e.val = val
    BY DEF Reply
  <1>7. Free.op = "none" /\ ~Free.late
    BY DEF Free, Req
  <1>8. wire[c].op = "seed" => open' = wire[c].name
    BY DEF Order
  <1> HIDE DEF n, e
  <1>9. \A d \in Slots : (~wire[d].late /\ Fits(wire[d].op) /\ (wire[d].op = "seed" => open = wire[d].name))'
    <2> SUFFICES ASSUME NEW d \in Slots
                 PROVE  (~wire[d].late /\ Fits(wire[d].op) /\ (wire[d].op = "seed" => open = wire[d].name))'
      OBVIOUS
    <2>1. CASE d = c
      BY <1>4, <1>7, <2>1 DEF Fits, SessionOps
    <2>2. CASE d # c
      <3>1. wire'[d].op = "seed" => wire[c].op \notin SessionOps
        BY <1>4, <2>2 DEF Order, OneChange, SessionOps
      <3> QED BY SMTT(30), <1>4, <1>5, <2>2, <3>1 DEF Order, Fits
    <2> QED BY <2>1, <2>2
  <1>10. OneChange'
    <2>1. \A i, j \in 1 .. n + 1 : inbox'[i].op \in SessionOps /\ inbox'[j].op \in SessionOps => i = j
      BY SMTT(30), <1>3, <1>6 DEF Order, OneChange
    <2>2. \A d \in Slots, i \in 1 .. n + 1 : ~(wire'[d].op \in SessionOps /\ inbox'[i].op \in SessionOps)
      BY SMTT(40), <1>3, <1>4, <1>6, <1>7 DEF Order, OneChange, SessionOps
    <2>3. \A d, b \in Slots : wire'[d].op \in SessionOps /\ wire'[b].op \in SessionOps => d = b
      BY <1>4, <1>7 DEF Order, OneChange, SessionOps
    <2> QED BY <1>3, <2>1, <2>2, <2>3 DEF OneChange
  <1>11. \A i \in DOMAIN inbox' : (Fits(inbox[i].op) /\ Brings(i))'
    <2> SUFFICES ASSUME NEW i \in 1 .. n + 1 PROVE (Fits(inbox[i].op) /\ Brings(i))'
      BY <1>3
    <2>1. CASE i = n + 1
      <3>1. Fits(inbox[i].op)'
        BY <1>3, <1>5, <1>6, <2>1 DEF Order, Fits
      <3>2. \A k \in DOMAIN inbox' : ~(k > i)
        BY SMTT(40), <1>3, <2>1
      <3>3. Brings(i)'
        BY <1>3, <1>6, <1>8, <2>1, <3>2 DEF Brings
      <3> QED BY <3>1, <3>3
    <2>2. CASE i \in 1 .. n
      <3>1. Fits(inbox[i].op)'
        BY SMTT(30), <1>3, <1>5, <2>2 DEF Order, Fits
      <3>2. CASE inbox[i].op \notin SessionOps
        BY <1>3, <2>2, <3>1, <3>2 DEF Brings, SessionOps
      <3>3. CASE inbox[i].op \in SessionOps
        <4>1. wire[c].op \notin SessionOps /\ UNCHANGED <<open, disk>>
          BY <1>3, <2>2, <3>3 DEF Order, OneChange
        <4>2. Brings(i)
          BY <1>3, <2>2 DEF Order
        <4>3. ASSUME open = inbox[i].name, \A k \in DOMAIN inbox : k > i => OfWallet(k, inbox[i].name)
              PROVE  \A k \in DOMAIN inbox' : k > i => OfWallet(k, inbox[i].name)'
          BY SMTT(30), <1>3, <1>6, <2>2, <4>1, <4>3 DEF OfWallet
        <4> QED BY <1>3, <2>2, <3>1, <4>1, <4>2, <4>3 DEF Brings
      <3> QED BY <3>1, <3>2, <3>3
    <2> QED BY SMTT(30), <1>3, <2>1, <2>2
  <1>12. ASSUME screen' = "main" \/ canContinue' PROVE Settled'
    <2>1. Settled /\ (wire[c].op \in SessionOps => wire[c].op = "closeToSwitch")
      BY <1>5, <1>12 DEF Order, Fits
    <2>2. disk' = disk
      BY <2>1
    <2>3. \A k \in DOMAIN inbox' : OfWallet(k, walletName)'
      BY SMTT(30), <1>3, <1>5, <1>6, <2>1, <2>2 DEF Settled, OfWallet, SessionOps, AddressOps
    <2>4. open' # walletName' => open' = None /\ \E i \in DOMAIN inbox' : inbox'[i].op = "closeToSwitch"
      <3>1. CASE wire[c].op = "closeToSwitch"
        BY SMTT(40), <1>3, <1>5, <1>6, <2>1, <3>1 DEF Settled
      <3>2. CASE wire[c].op # "closeToSwitch"
        BY SMTT(40), <1>3, <1>5, <2>1, <3>2 DEF Settled
      <3> QED BY <3>1, <3>2
    <2> QED BY <1>5, <2>1, <2>2, <2>3, <2>4 DEF Settled
  <1> QED BY <1>5, <1>9, <1>10, <1>11, <1>12 DEF Order

LEMMA WalletRpcKeepsOrder ==
  ASSUME KeyInv, Order, NEW c \in Slots, WalletRpc(c)
  PROVE  Order'
  <1>1. UNCHANGED <<view, state>>
    BY DEF WalletRpc
  <1>2. wire[c] \in Request(KeysOnDisk)
    BY DEF KeyInv
  <1>3. ASSUME NEW ok \in BOOLEAN, NEW val \in Addrs \cup {None}, wire[c].op \notin KeyOps
        PROVE  Reply(wire[c], ok, val) \in Replied(KeysOnDisk)
    BY <1>2, <1>3 DEF Reply, Replied, Request, Carries
  <1>4. ASSUME NEW a \in Addrs, NewWallet(c, a) PROVE Order'
    <2>1. /\ wire[c].op \notin KeyOps \cup AddressOps \cup {"seed", "closeToSwitch"}
          /\ wire[c].op \in SessionOps
      BY <1>4 DEF NewWallet, KeyOps, AddressOps, SessionOps
    <2> QED BY <1>1, <1>3, <1>4, <2>1, AnswerKeepsOrder DEF NewWallet
  <1>5. CASE OpenServed(c)
    <2>1. wire[c].op \notin KeyOps \cup AddressOps /\ wire[c].op \in SessionOps
      BY <1>5 DEF OpenServed, KeyOps, AddressOps, SessionOps
    <2> QED BY <1>1, <1>3, <1>5, <2>1, AnswerKeepsOrder DEF OpenServed
  <1>6. CASE CloseServed(c)
    <2>1. /\ wire[c].op \notin KeyOps \cup AddressOps \cup {"seed", "create", "open"}
          /\ wire[c].op \in SessionOps
      BY <1>6 DEF CloseServed, KeyOps, AddressOps, SessionOps
    <2> QED BY <1>1, <1>3, <1>6, <2>1, AnswerKeepsOrder DEF CloseServed
  <1>7. CASE ReadServed(c)
    <2>1. PICK v \in Addrs \cup {None} : v = disk[open]
      BY <1>7 DEF ReadServed, KeyInv
    <2>2. wire[c].op \notin KeyOps \cup {"create", "open", "closeToSwitch"}
      BY <1>7 DEF ReadServed, KeyOps, AddressOps
    <2> QED BY <1>1, <1>3, <1>7, <2>1, <2>2, AnswerKeepsOrder DEF ReadServed
  <1>8. CASE Refused(c)
    BY <1>1, <1>3, <1>8, AnswerKeepsOrder DEF Refused
  <1> QED BY <1>4, <1>5, <1>6, <1>7, <1>8 DEF WalletRpc

LEMMA MainProcessKeepsOrder ==
  ASSUME KeyInv, Order, NEW c \in Slots, MainProcess(c)
  PROVE  Order'
  <1>1. UNCHANGED <<view, state, open, disk>>
    BY DEF MainProcess
  <1>2. wire[c] \in Request(KeysOnDisk)
    BY DEF KeyInv
  <1>3. ASSUME NEW ok \in BOOLEAN, NEW val \in KeysOnDisk \cup {None}, wire[c].op \in KeyOps,
               Answer(c, ok, val)
        PROVE  Order'
    <2>1. Reply(wire[c], ok, val) \in Replied(KeysOnDisk)
      BY <1>2, <1>3 DEF Reply, Replied, Request, Carries, KeyOps, AddressOps
    <2>2. wire[c].op \notin SessionOps \cup AddressOps
      BY <1>3 DEF KeyOps, AddressOps, SessionOps
    <2> QED BY <1>1, <1>3, <2>1, <2>2, AnswerKeepsOrder DEF SessionOps
  <1>4. CASE LoadServed(c)
    <2> DEFINE data == KeyOnDisk(wire[c].name)
    <2>1. data # None => data.nexus \in KeysOnDisk
      BY <1>2, SessionBounds, InKeysOnDisk DEF KeyOnDisk, Request
    <2>2. PICK v \in KeysOnDisk \cup {None} :
            v = IF data # None /\ data.crylo = wire[c].addr THEN data.nexus ELSE None
      BY <2>1
    <2> QED BY <1>3, <1>4, <2>2 DEF LoadServed, KeyOps
  <1>5. CASE BindStarts(c)
    <2>1. PICK k : wire' = [wire EXCEPT ![c].key = k]
      BY <1>5 DEF BindStarts
    <2>2. /\ inbox' = inbox
          /\ \A d \in Slots : /\ wire'[d].op = wire[d].op /\ wire'[d].name = wire[d].name
                              /\ wire'[d].late = wire[d].late
      BY <1>2, <1>5, <2>1 DEF BindStarts, KeyInv, Request
    <2>3. UNCHANGED <<screen, canContinue, walletName, address>>
      BY <1>1 DEF view, state
    <2>4. \A i \in DOMAIN inbox' : (Fits(inbox[i].op) /\ Brings(i))'
      BY <1>1, <2>2, <2>3 DEF Order, Fits, Brings, OfWallet
    <2>5. (screen' = "main" \/ canContinue') => Settled'
      BY <1>1, <2>2, <2>3 DEF Order, Settled, OfWallet
    <2>6. \A d \in Slots : (~wire[d].late /\ Fits(wire[d].op) /\ (wire[d].op = "seed" => open = wire[d].name))'
      BY <1>1, <2>2, <2>3 DEF Order, Fits
    <2>7. OneChange'
      BY <2>2 DEF Order, OneChange
    <2> QED BY <2>3, <2>4, <2>5, <2>6, <2>7 DEF Order
  <1>6. CASE BindRefused(c)
    BY <1>3, <1>6 DEF BindRefused, KeyOps
  <1>7. ASSUME NEW accepted \in BOOLEAN, NEW ok \in BOOLEAN, BindEnds(c, accepted, ok)
        PROVE  Order'
    <2>1. PICK v \in KeysOnDisk \cup {None} : v = IF ok THEN wire[c].key ELSE None
      BY <1>2, <1>7 DEF BindEnds, Request
    <2> QED BY <1>3, <1>7, <2>1 DEF BindEnds, KeyOps
  <1> QED BY <1>4, <1>5, <1>6, <1>7 DEF MainProcess

(* The page takes a reply that changes no session, and may send a request to *)
(* the main process.                                                        *)
LEMMA TakeKeepsOrder ==
  ASSUME KeyInv, Order, inbox # <<>>, inbox' = Tail(inbox), Head(inbox).op \notin SessionOps,
         UNCHANGED <<view, walletName, open, disk>>,
         \A c \in Slots : wire'[c] = wire[c] \/ (wire'[c].op \in KeyOps /\ ~wire'[c].late),
         address' = address \/ (Head(inbox).op \in AddressOps /\ Head(inbox).ok /\ address' = Head(inbox).val)
  PROVE  Order'
  <1>1. /\ Len(inbox) \in Nat /\ Len(inbox) > 0 /\ DOMAIN inbox = 1 .. Len(inbox)
        /\ DOMAIN inbox' = 1 .. Len(inbox) - 1
        /\ \A i \in DOMAIN inbox' : i \in Nat /\ i + 1 \in DOMAIN inbox /\ inbox'[i] = inbox[i + 1]
        /\ Head(inbox) = inbox[1] /\ 1 \in DOMAIN inbox
    BY SMTT(40), TailIs DEF KeyInv
  <1>2. UNCHANGED <<screen, canContinue>>
    BY DEF view
  <1>3. \A c \in Slots : wire'[c].op \in SessionOps => wire'[c] = wire[c]
    BY DEF SessionOps, KeyOps
  <1>4. \A c \in Slots : (~wire[c].late /\ Fits(wire[c].op) /\ (wire[c].op = "seed" => open = wire[c].name))'
    BY <1>2, <1>3 DEF Order, Fits, SessionOps
  <1>5. OneChange'
    <2>1. \A i, j \in DOMAIN inbox' : inbox'[i].op \in SessionOps /\ inbox'[j].op \in SessionOps => i = j
      <3> SUFFICES ASSUME NEW i \in DOMAIN inbox', NEW j \in DOMAIN inbox',
                          inbox'[i].op \in SessionOps, inbox'[j].op \in SessionOps
                   PROVE  i = j
        OBVIOUS
      <3>1. i + 1 = j + 1
        BY <1>1 DEF Order, OneChange
      <3> QED BY SMTT(30), <1>1, <3>1
    <2> QED BY SMTT(40), <1>1, <1>3, <2>1 DEF Order, OneChange
  <1>6. \A i \in DOMAIN inbox' : (Fits(inbox[i].op) /\ Brings(i))'
    <2> SUFFICES ASSUME NEW i \in DOMAIN inbox' PROVE (Fits(inbox[i].op) /\ Brings(i))'
      OBVIOUS
    <2>1. Fits(inbox[i + 1].op) /\ Brings(i + 1)
      BY <1>1 DEF Order
    <2>2. Fits(inbox[i].op)'
      BY <1>1, <1>2, <2>1 DEF Fits
    <2>3. \A k \in DOMAIN inbox' : k > i => k + 1 > i + 1
      BY SMTT(30), <1>1
    <2>4. Brings(i)'
      BY SMTT(30), <1>1, <2>1, <2>3 DEF Brings, OfWallet
    <2> QED BY <2>2, <2>4
  <1>7. ASSUME screen' = "main" \/ canContinue' PROVE Settled'
    <2>1. Settled
      BY <1>2, <1>7 DEF Order
    <2>2. address' # None => address' = disk'[walletName']
      BY <1>1, <2>1 DEF Settled, OfWallet
    <2>3. \A k \in DOMAIN inbox' : OfWallet(k, walletName)'
      BY <1>1, <2>1 DEF Settled, OfWallet
    <2>4. ASSUME NEW i \in DOMAIN inbox, inbox[i].op = "closeToSwitch"
          PROVE  \E j \in DOMAIN inbox' : inbox'[j].op = "closeToSwitch"
      <3>1. i # 1
        BY <1>1, <2>4 DEF SessionOps
      <3>2. i - 1 \in DOMAIN inbox' /\ (i - 1) + 1 = i
        BY SMTT(30), <1>1, <3>1
      <3> QED BY <1>1, <2>4, <3>2
    <2> QED BY <2>1, <2>2, <2>3, <2>4 DEF Settled
  <1> QED BY <1>2, <1>4, <1>5, <1>6, <1>7 DEF Order

(* The reply to a session change: no other is under way, and the change goes *)
(* on with one request more, or is over.                                    *)
LEMMA EndKeepsOrder ==
  ASSUME KeyInv, Order, inbox # <<>>, inbox' = Tail(inbox), Head(inbox).op \in SessionOps,
         UNCHANGED <<open, disk>>, NEW d \in Slots,
         \A c \in Slots : c # d => wire'[c] = wire[c],
         \/ wire'[d] = wire[d]
         \/ /\ wire'[d].op \in SessionOps /\ ~wire'[d].late /\ Fits(wire[d].op)'
            /\ wire'[d].op = "seed" => open = wire'[d].name,
         canContinue' => screen' = "setup",
         screen' = "main" \/ canContinue' =>
           /\ open = walletName' /\ address' = None
           /\ \A k \in DOMAIN inbox : k > 1 => OfWallet(k, open)
  PROVE  Order'
  <1>1. /\ Len(inbox) \in Nat /\ Len(inbox) > 0 /\ DOMAIN inbox = 1 .. Len(inbox)
        /\ DOMAIN inbox' = 1 .. Len(inbox) - 1
        /\ \A i \in DOMAIN inbox' : i \in Nat /\ i + 1 \in DOMAIN inbox /\ inbox'[i] = inbox[i + 1]
        /\ Head(inbox) = inbox[1] /\ 1 \in DOMAIN inbox
    BY SMTT(40), TailIs DEF KeyInv
  <1>2. \A c \in Slots : wire[c].op \notin SessionOps /\ ~wire[c].late
    BY <1>1 DEF Order, OneChange
  <1>3. \A i \in DOMAIN inbox' : inbox'[i].op \notin SessionOps
    <2> SUFFICES ASSUME NEW i \in DOMAIN inbox', inbox'[i].op \in SessionOps PROVE FALSE
      OBVIOUS
    <2>1. i + 1 = 1
      BY <1>1 DEF Order, OneChange
    <2> QED BY SMTT(30), <1>1, <2>1
  <1>4. \A c \in Slots : (~wire[c].late /\ Fits(wire[c].op) /\ (wire[c].op = "seed" => open = wire[c].name))'
    BY <1>2 DEF Fits, SessionOps
  <1>5. OneChange'
    BY <1>2, <1>3 DEF OneChange
  <1>6. \A i \in DOMAIN inbox' : (Fits(inbox[i].op) /\ Brings(i))'
    BY <1>3 DEF Fits, Brings, SessionOps
  <1>7. ASSUME screen' = "main" \/ canContinue' PROVE Settled'
    <2>1. \A k \in DOMAIN inbox' : k + 1 > 1
      BY SMTT(30), <1>1
    <2>2. \A k \in DOMAIN inbox' : OfWallet(k, walletName)'
      BY SMTT(30), <1>1, <1>7, <2>1 DEF OfWallet
    <2> QED BY <1>7, <2>2 DEF Settled
  <1> QED BY <1>4, <1>5, <1>6, <1>7 DEF Order

LEMMA ResumeKeepsOrder ==
  ASSUME KeyInv, Order, Resume
  PROVE  Order'
  <1> DEFINE r == Head(inbox)
  <1>1. inbox # <<>> /\ inbox' = Tail(inbox) /\ UNCHANGED <<open, disk>>
    BY DEF Resume, store
  <1>2. r = inbox[1] /\ 1 \in DOMAIN inbox
    BY <1>1, TailIs DEF KeyInv
  <1>3. Fits(r.op) /\ Brings(1)
    BY <1>2 DEF Order
  <1>4. 1 \in Slots
    BY SMTT(30), SessionBounds DEF Slots
  <1> HIDE DEF r
  <1>5. ASSUME r.op \in SessionOps, wire' = wire, canContinue' => screen' = "setup",
               screen' = "main" \/ canContinue' =>
                 /\ open = walletName' /\ address' = None
                 /\ \A k \in DOMAIN inbox : k > 1 => OfWallet(k, open)
        PROVE  Order'
    BY <1>1, <1>4, <1>5, EndKeepsOrder DEF r
  <1>6. ASSUME r.op \in {"closeToCreate", "closeToOpen", "create"}, NEW s,
               s.op \in {"create", "open", "seed"}, ~s.late, s.op = "seed" => open = s.name,
               Send(s), UNCHANGED view
        PROVE  Order'
    <2>1. PICK d \in Slots : wire' = [wire EXCEPT ![d] = s]
      BY <1>6, SendTakes
    <2>2. wire'[d] = s /\ \A c \in Slots : c # d => wire'[c] = wire[c]
      BY <2>1 DEF KeyInv
    <2>3. screen # "main" /\ ~canContinue /\ r.op \in SessionOps /\ s.op \in SessionOps
      BY <1>3, <1>6 DEF Fits, SessionOps
    <2>4. screen' # "main" /\ ~canContinue'
      BY <1>6, <2>3 DEF view
    <2>5. Fits(wire[d].op)'
      BY <1>6, <2>2, <2>4 DEF Fits
    <2> QED BY <1>1, <1>6, <2>2, <2>3, <2>4, <2>5, EndKeepsOrder DEF r
  <1>7. ASSUME r.op \in {"open", "restore", "create"}, wire' = wire, UNCHANGED view PROVE Order'
    <2>1. screen # "main" /\ ~canContinue /\ r.op \in SessionOps
      BY <1>3, <1>7 DEF Fits, SessionOps
    <2>2. screen' # "main" /\ ~canContinue'
      BY <1>7, <2>1 DEF view
    <2> QED BY <1>5, <1>7, <2>1, <2>2
  <1>8. CASE CloseDone(r)
    <2>1. PICK s : s = Req(IF r.op = "closeToCreate" THEN "create" ELSE "open", r.name, None)
      OBVIOUS
    <2>2. s.op \in {"create", "open"} /\ ~s.late
      BY <2>1 DEF Req
    <2> QED BY SMTT(30), <1>6, <1>8, <2>1, <2>2 DEF CloseDone
  <1>9. CASE CreateDone(r)
    <2>1. PICK s : s = Req("seed", r.name, None)
      OBVIOUS
    <2>2. s.op = "seed" /\ ~s.late /\ s.name = r.name
      BY <2>1 DEF Req
    <2>3. CASE r.ok
      <3>1. open = r.name
        BY <1>2, <1>3, <1>9, <2>3 DEF CreateDone, Brings
      <3> QED BY SMTT(30), <1>6, <1>9, <2>1, <2>2, <2>3, <3>1 DEF CreateDone
    <2>4. CASE ~r.ok
      BY <1>7, <1>9, <2>4 DEF CreateDone
    <2> QED BY <2>3, <2>4
  <1>10. CASE SeedDone(r)
    <2>1. open = r.name /\ \A k \in DOMAIN inbox : k > 1 => OfWallet(k, r.name)
      BY <1>2, <1>3, <1>10 DEF SeedDone, Brings
    <2>2. screen = "setup" /\ r.op \in SessionOps
      BY <1>3, <1>10 DEF SeedDone, Fits, SessionOps, KeyInv
    <2> QED BY <1>5, <1>10, <2>1, <2>2 DEF SeedDone, Forget
  <1>11. CASE OpenDone(r)
    <2>1. CASE r.ok
      <3>1. open = r.name /\ \A k \in DOMAIN inbox : k > 1 => OfWallet(k, r.name)
        BY <1>2, <1>3, <1>11, <2>1 DEF OpenDone, Brings
      <3> QED BY <1>5, <1>11, <2>1, <3>1 DEF OpenDone, Forget, SessionOps
    <2>2. CASE ~r.ok
      BY <1>7, <1>11, <2>2 DEF OpenDone
    <2> QED BY <2>1, <2>2
  <1>12. CASE RestoreDone(r)
    BY <1>7, <1>12 DEF RestoreDone
  <1>13. CASE SwitchDone(r)
    BY <1>5, <1>13 DEF SwitchDone, SessionOps
  <1>14. CASE AddressDone(r)
    <2>1. r.op \notin SessionOps /\ UNCHANGED <<view, walletName>>
      BY <1>14 DEF AddressDone, AddressOps, SessionOps
    <2>2. CASE r.ok
      <3>1. PICK s : s = Req(IF r.op = "addressToBind" THEN "bind" ELSE "load", walletName, r.val)
        OBVIOUS
      <3>2. s.op \in KeyOps /\ ~s.late
        BY <3>1 DEF Req, KeyOps
      <3>3. PICK d \in Slots : wire' = [wire EXCEPT ![d] = s]
        BY <1>14, <2>2, <3>1, SendTakes DEF AddressDone
      <3>4. \A c \in Slots : wire'[c] = wire[c] \/ (wire'[c].op \in KeyOps /\ ~wire'[c].late)
        BY <3>2, <3>3 DEF KeyInv
      <3> QED BY <1>1, <1>14, <2>1, <2>2, <3>4, TakeKeepsOrder DEF AddressDone, r
    <2>3. CASE ~r.ok
      BY <1>1, <1>14, <2>1, <2>3, TakeKeepsOrder DEF AddressDone, r
    <2> QED BY <2>2, <2>3
  <1>15. CASE KeyDone(r)
    <2>1. r.op \notin SessionOps
      BY <1>15 DEF KeyDone, KeyOps, SessionOps
    <2> QED BY <1>1, <1>15, <2>1, TakeKeepsOrder DEF KeyDone, r
  <1> QED BY <1>8, <1>9, <1>10, <1>11, <1>12, <1>13, <1>14, <1>15 DEF Resume, r

LEMMA NextKeepsOrder == KeyInv /\ OrderInv /\ [Next]_vars => OrderInv'
  <1> SUFFICES ASSUME KeyInv, OrderInv, [Next]_vars, orderly' PROVE Order'
    BY DEF OrderInv
  <1>1. CASE Restart
    <2>1. \A c \in Slots : wire'[c].op = "none" /\ ~wire'[c].late
      BY <1>1 DEF Restart, Free, Req
    <2>2. DOMAIN inbox' = {} /\ screen' = "setup" /\ ~canContinue'
      BY SMTT(30), <1>1 DEF Restart
    <2> QED BY <2>1, <2>2 DEF Order, OneChange, Fits, SessionOps
  <1>2. ASSUME ~Restart PROVE orderly
    BY <1>2 DEF Next, CreateWallet, OpenWallet, RestoreWallet, SetupRequest, Continue, Back, SwitchWallet,
      LoadAddress, LoadSavedNexus, CreateBoundNexus, WalletRpc, MainProcess, TimeOut, Resume, history, vars
  <1> SUFFICES ASSUME Order, ~Restart PROVE Order'
    BY <1>1, <1>2 DEF OrderInv
  <1>3. ASSUME NEW op \in Ops, NEW n, NEW a, Send(Req(op, n, a)), UNCHANGED <<view, state, inbox, store>>,
               op \in SessionOps => ~Changing /\ Fits(op), op # "seed"
        PROVE  Order'
    <2>1. PICK r : r = Req(op, n, a)
      OBVIOUS
    <2>2. ~r.late /\ r.op = op
      BY <2>1 DEF Req
    <2>3. PICK d \in Slots : wire[d] = Free /\ wire' = [wire EXCEPT ![d] = r]
      BY <1>3, <2>1, SendTakes
    <2> QED BY <1>3, <2>2, <2>3, StartKeepsOrder
  <1>4. ASSUME NEW op \in {"closeToCreate", "closeToOpen", "restore"}, NEW n, NEW a,
               SetupRequest(Req(op, n, a))
        PROVE  Order'
    <2>1. Fits(op) /\ ~Changing /\ op \in Ops
      BY <1>4 DEF SetupRequest, Fits, Ops, SessionOps
    <2> QED BY <1>3, <1>4, <2>1 DEF SetupRequest
  <1>5. ASSUME NEW n \in Names, CreateWallet(n) \/ OpenWallet(n) PROVE Order'
    BY <1>4, <1>5 DEF CreateWallet, OpenWallet
  <1>6. ASSUME NEW n \in Names, NEW a \in Addrs, RestoreWallet(n, a) PROVE Order'
    BY <1>4, <1>6 DEF RestoreWallet
  <1>7. CASE Continue
    <2>1. UNCHANGED <<walletName, address, wire, inbox, open, disk>> /\ screen' = "main" /\ ~canContinue'
      BY <1>7 DEF Continue, state, store
    <2>2. \A c \in Slots : wire[c].op \notin SessionOps
      BY <1>7 DEF Order, Continue, Fits
    <2>3. \A i \in DOMAIN inbox : inbox[i].op \notin SessionOps
      BY <1>7 DEF Order, Continue, Fits
    <2>4. Settled'
      BY <1>7, <2>1 DEF Order, Continue, Settled, OfWallet
    <2>5. \A c \in Slots : (~wire[c].late /\ Fits(wire[c].op) /\ (wire[c].op = "seed" => open = wire[c].name))'
      BY <2>1, <2>2 DEF Order, Fits, SessionOps
    <2>6. \A i \in DOMAIN inbox' : (Fits(inbox[i].op) /\ Brings(i))'
      BY <2>1, <2>3 DEF Fits, Brings, SessionOps
    <2> QED BY <2>1, <2>2, <2>3, <2>4, <2>5, <2>6 DEF Order, OneChange
  <1>8. CASE Back \/ UNCHANGED vars
    <2>1. /\ UNCHANGED <<walletName, address, wire, inbox, open, disk, screen>>
          /\ canContinue' => canContinue
      BY SMTT(30), <1>8 DEF Back, vars, view, state, store
    <2>2. \A c \in Slots : (~wire[c].late /\ Fits(wire[c].op) /\ (wire[c].op = "seed" => open = wire[c].name))'
      BY <2>1 DEF Order, Fits
    <2>3. \A i \in DOMAIN inbox' : (Fits(inbox[i].op) /\ Brings(i))'
      BY <2>1 DEF Order, Fits, Brings, OfWallet
    <2>4. (screen' = "main" \/ canContinue') => Settled'
      BY <2>1 DEF Order, Settled, OfWallet
    <2> QED BY <2>1, <2>2, <2>3, <2>4 DEF Order, OneChange
  <1>9. CASE SwitchWallet
    <2>1. Fits("closeToSwitch") /\ ~Changing
      BY <1>9 DEF SwitchWallet, Fits, Order
    <2> QED BY <1>3, <1>9, <2>1 DEF SwitchWallet, Ops, SessionOps
  <1>10. CASE LoadAddress
    BY <1>3, <1>10 DEF LoadAddress, Ops, AddressOps, SessionOps
  <1>11. CASE LoadSavedNexus
    <2>1. PICK n, a : n = walletName /\ a = address
      OBVIOUS
    <2> QED BY <1>3, <1>11, <2>1 DEF LoadSavedNexus, Ops, AddressOps, KeyOps, SessionOps
  <1>12. CASE CreateBoundNexus
    <2>1. PICK n, a : n = walletName /\ a = address
      OBVIOUS
    <2> QED BY <1>3, <1>12, <2>1 DEF CreateBoundNexus, Ops, AddressOps, KeyOps, SessionOps
  <1>13. ASSUME NEW c \in Slots, WalletRpc(c) \/ MainProcess(c) \/ TimeOut(c) PROVE Order'
    BY <1>13, WalletRpcKeepsOrder, MainProcessKeepsOrder DEF TimeOut
  <1> QED BY <1>5, <1>6, <1>7, <1>8, <1>9, <1>10, <1>11, <1>12, <1>13, ResumeKeepsOrder DEF Next

-----------------------------------------------------------------------------
(* A step that writes no key file, gives no wallet another address, and puts *)
(* on the wire only binds that have the address of the wallet they name.    *)
LEMMA KeepsBound ==
  ASSUME KeyInv, Bound, keyFile' = keyFile,
         \A n \in Names : disk[n] # None => disk'[n] = disk[n],
         \A c \in Slots : \/ wire'[c] = wire[c] \/ wire'[c].op # "bind"
                          \/ Named(wire[c])' /\ wire'[c].key = None,
         \A i \in DOMAIN inbox' : \/ \E j \in DOMAIN inbox : inbox'[i] = inbox[j]
                                  \/ inbox'[i].op # "bind" \/ ~inbox'[i].ok
  PROVE  Bound'
  <1>1. \A c \in Slots : wire[c].name \in Names \cup {None}
    BY DEF KeyInv, Request
  <1>2. ASSUME NEW c \in Slots PROVE Named(wire[c])'
    <2>1. CASE wire'[c] = wire[c]
      BY SMTT(40), <1>1, <2>1, SessionBounds DEF Bound, Named
    <2> QED BY <2>1 DEF Named
  <1>3. ASSUME NEW n, NEW a, Holds(n, a) PROVE Holds(n, a)'
    BY <1>3 DEF Holds
  <1>4. ASSUME NEW c \in Slots PROVE Keyed(wire[c])'
    BY <1>3 DEF Bound, Keyed, InFile
  <1>5. ASSUME NEW n \in Names, keyFile'[FileOf(n)] # None
        PROVE  OfAName(n)'
    <2>1. keyFile[FileOf(n)] \in [crylo : Addrs, nexus : Keys]
      BY <1>5, SessionBounds DEF KeyInv
    <2>2. PICK m \in Names : FileOf(m) = FileOf(n) /\ keyFile[FileOf(n)].crylo = disk[m]
      BY <1>5 DEF Bound, OfAName
    <2>3. disk[m] # None
      BY <2>1, <2>2, SessionBounds
    <2> QED BY <2>2, <2>3 DEF OfAName
  <1>6. \A i \in DOMAIN inbox' : Filed(inbox[i])'
    <2> SUFFICES ASSUME NEW i \in DOMAIN inbox', inbox'[i].op = "bind", inbox'[i].ok
                 PROVE  (Holds(inbox[i].name, inbox[i].addr) /\ InFile(inbox[i].name, inbox[i].val))'
      BY DEF Filed
    <2>1. PICK j \in DOMAIN inbox : inbox'[i] = inbox[j]
      OBVIOUS
    <2>2. Holds(inbox[j].name, inbox[j].addr) /\ InFile(inbox[j].name, inbox[j].val)
      BY <2>1 DEF Bound, Filed
    <2> QED BY <1>3, <2>1, <2>2 DEF InFile
  <1> QED BY <1>2, <1>4, <1>5, <1>6 DEF Bound

(* nexus-wallet-create takes the file it finds or writes a new one: either   *)
(* has the address of a wallet whose name leads to the file.                *)
LEMMA BindStartsKeepsBound ==
  ASSUME KeyInv, Bound, NEW c \in Slots, BindStarts(c), disk' = disk
  PROVE  Bound'
  <1>1. wire[c] \in Request(KeysOnDisk) /\ wire[c].op = "bind"
    BY DEF BindStarts, KeyInv
  <1>2. PICK n \in Names, a \in Addrs : n = wire[c].name /\ a = wire[c].addr
    BY <1>1 DEF BindStarts, Request
  <1>3. PICK f \in Files : f = FileOf(n)
    BY SessionBounds
  <1>4. KeyOnDisk(n) = keyFile[f] /\ a = disk[n] /\ n # None /\ a # None
    BY <1>1, <1>2, <1>3, SessionBounds DEF KeyOnDisk, Bound, Named
  <1>5. inbox' = inbox
    BY DEF BindStarts
  <1>6. ASSUME NEW k, wire' = [wire EXCEPT ![c].key = k], InFile(n, k)',
               \A g \in Files : keyFile[g] # None => keyFile'[g] = keyFile[g],
               \A m \in Names : keyFile'[FileOf(m)] # None => OfAName(m)'
        PROVE  Bound'
    <2>1. /\ wire'[c].op = "bind" /\ wire'[c].name = n /\ wire'[c].addr = a /\ wire'[c].key = k
          /\ \A d \in Slots : d # c => wire'[d] = wire[d]
      BY <1>1, <1>2, <1>6 DEF KeyInv, Request
    <2>2. \A m \in Names : \A v : InFile(m, v) => InFile(m, v)'
      BY <1>6, SessionBounds DEF InFile
    <2>3. \A m, b : Holds(m, b) => m \in Names /\ Holds(m, b)'
      BY DEF Holds
    <2>4. \A d \in Slots : (Named(wire[d]) /\ Keyed(wire[d]))'
      <3>1. ASSUME NEW d \in Slots, d # c PROVE (Named(wire[d]) /\ Keyed(wire[d]))'
        BY <2>1, <2>2, <2>3, <3>1 DEF Bound, Named, Keyed
      <3>2. (Named(wire[c]) /\ Keyed(wire[c]))'
        BY <1>4, <1>6, <2>1 DEF Named, Keyed, Holds
      <3> QED BY <3>1, <3>2
    <2>5. \A i \in DOMAIN inbox' : Filed(inbox[i])'
      BY <1>5, <2>2, <2>3 DEF Bound, Filed
    <2> QED BY <1>6, <2>4, <2>5 DEF Bound
  <1>7. CASE keyFile[f] # None
    <2>1. PICK k : k = keyFile[f].nexus
      OBVIOUS
    <2>2. wire' = [wire EXCEPT ![c].key = k] /\ keyFile' = keyFile
      BY <1>2, <1>4, <1>7, <2>1 DEF BindStarts
    <2>3. InFile(n, k)'
      BY <1>3, <1>7, <2>1, <2>2 DEF InFile
    <2>4. \A m \in Names : keyFile'[FileOf(m)] # None => OfAName(m)'
      BY <2>2 DEF Bound, OfAName
    <2> QED BY <1>6, <2>2, <2>3, <2>4
  <1>8. CASE keyFile[f] = None
    <2> DEFINE fresh == Keys \ (KeysOnDisk \cup registered)
    <2>1. PICK k : k = Min(fresh)
      OBVIOUS
    <2>2. /\ fresh # {} /\ wire' = [wire EXCEPT ![c].key = k]
          /\ keyFile' = [keyFile EXCEPT ![f] = [crylo |-> a, nexus |-> k]]
      BY <1>2, <1>3, <1>4, <1>8, <2>1 DEF BindStarts
    <2>3. k \in Keys
      BY SMTT(30), <2>1, <2>2, MinIn DEF Keys
    <2>4. /\ keyFile'[f] = [crylo |-> a, nexus |-> k] /\ keyFile'[f] # None
          /\ \A g \in Files : g # f => keyFile'[g] = keyFile[g]
      BY SMTT(30), <2>2, <2>3, SessionBounds DEF KeyInv, Keys
    <2>5. keyFile'[f].crylo = a /\ keyFile'[f].nexus = k
      BY SMTT(30), <2>4
    <2>6. InFile(n, k)'
      BY <1>3, <2>4, <2>5 DEF InFile
    <2>7. ASSUME NEW m \in Names, keyFile'[FileOf(m)] # None PROVE OfAName(m)'
      <3>1. CASE FileOf(m) = f
        BY <1>3, <1>4, <2>5, <3>1 DEF OfAName
      <3>2. CASE FileOf(m) # f
        <4>1. FileOf(m) \in Files /\ keyFile'[FileOf(m)] = keyFile[FileOf(m)]
          BY <2>4, <3>2, SessionBounds
        <4> QED BY <2>7, <4>1 DEF Bound, OfAName
      <3> QED BY <3>1, <3>2
    <2> QED BY <1>6, <1>8, <2>2, <2>4, <2>6, <2>7
  <1> QED BY <1>7, <1>8

LEMMA MainProcessKeepsBound ==
  ASSUME KeyInv, Order, Bound, NEW c \in Slots, MainProcess(c)
  PROVE  Bound'
  <1>1. disk' = disk
    BY DEF MainProcess
  <1>2. ASSUME NEW ok \in BOOLEAN, NEW val \in KeysOnDisk \cup {None}, wire[c].op \in KeyOps,
               Answer(c, ok, val), keyFile' = keyFile,
               wire[c].op = "bind" /\ ok => Holds(wire[c].name, wire[c].addr) /\ InFile(wire[c].name, val)
        PROVE  Bound'
    <2>1. wire[c] \in Request(KeysOnDisk) /\ ~wire[c].late /\ inbox \in Seq(Replied(KeysOnDisk))
      BY DEF KeyInv, Order
    <2>2. PICK e : e = Reply(wire[c], ok, val)
      OBVIOUS
    <2>3. e \in Replied(KeysOnDisk)
      BY <1>2, <2>1, <2>2 DEF Reply, Replied, Request, Carries, KeyOps, AddressOps
    <2>4. inbox' = Append(inbox, e)
      BY <1>2, <2>1, <2>2 DEF Answer
    <2>5. /\ Len(inbox) \in Nat /\ DOMAIN inbox = 1 .. Len(inbox) /\ DOMAIN inbox' = 1 .. Len(inbox) + 1
          /\ \A i \in 1 .. Len(inbox) : inbox'[i] = inbox[i]
          /\ inbox'[Len(inbox) + 1] = e
      BY SMTT(40), <2>1, <2>3, <2>4, AppendIs
    <2>6. \A d \in Slots : wire'[d] = wire[d] \/ wire'[d] = Free
      BY <1>2 DEF Answer, KeyInv
    <2>7. \A d \in Slots : (Named(wire[d]) /\ Keyed(wire[d]))'
      BY SMTT(40), <1>1, <1>2, <2>6 DEF Bound, Named, Keyed, Holds, InFile, Free, Req
    <2>8. \A i \in DOMAIN inbox' : Filed(inbox[i])'
      <3>1. Filed(e)'
        BY <1>1, <1>2, <2>2 DEF Filed, Reply, InFile, Holds
      <3> QED BY SMTT(40), <1>1, <1>2, <2>5, <3>1 DEF Bound, Filed, InFile, Holds
    <2>9. \A n \in Names : keyFile'[FileOf(n)] # None => OfAName(n)'
      BY <1>1, <1>2 DEF Bound, OfAName
    <2> QED BY <2>7, <2>8, <2>9 DEF Bound
  <1>3. CASE LoadServed(c)
    <2> DEFINE data == KeyOnDisk(wire[c].name)
    <2>1. data # None => data.nexus \in KeysOnDisk
      BY SessionBounds, InKeysOnDisk DEF KeyOnDisk, Request, KeyInv
    <2>2. PICK v \in KeysOnDisk \cup {None} :
            v = IF data # None /\ data.crylo = wire[c].addr THEN data.nexus ELSE None
      BY <2>1
    <2> QED BY <1>2, <1>3, <2>2 DEF LoadServed, KeyOps
  <1>4. CASE BindStarts(c)
    BY <1>1, <1>4, BindStartsKeepsBound
  <1>5. CASE BindRefused(c)
    BY <1>2, <1>5 DEF BindRefused, KeyOps
  <1>6. ASSUME NEW accepted \in BOOLEAN, NEW ok \in BOOLEAN, BindEnds(c, accepted, ok)
        PROVE  Bound'
    <2>1. PICK v \in KeysOnDisk \cup {None} : v = IF ok THEN wire[c].key ELSE None
      BY <1>6 DEF BindEnds, Request, KeyInv
    <2>2. wire[c].op = "bind" /\ ok => Holds(wire[c].name, wire[c].addr) /\ InFile(wire[c].name, v)
      BY <1>6, <2>1 DEF BindEnds, Bound, Keyed
    <2> QED BY <1>2, <1>6, <2>1, <2>2 DEF BindEnds, KeyOps
  <1> QED BY <1>3, <1>4, <1>5, <1>6 DEF MainProcess

LEMMA WalletRpcKeepsTurn ==
  ASSUME KeyInv, Order, Apart, Bound, NEW c \in Slots, WalletRpc(c)
  PROVE  Apart' /\ Bound'
  <1>1. UNCHANGED <<screen, canContinue, walletName, keyFile>>
    BY DEF WalletRpc, view, state
  <1>2. wire[c] \in Request(KeysOnDisk) /\ ~wire[c].late /\ inbox \in Seq(Replied(KeysOnDisk))
    BY DEF KeyInv, Order
  <1>3. wire[c].op \notin KeyOps \cup {"none"}
    BY DEF WalletRpc, NewWallet, OpenServed, CloseServed, ReadServed, Refused, KeyOps, AddressOps
  <1>4. \A n \in Names : disk[n] # None => disk'[n] = disk[n]
    BY DEF WalletRpc, NewWallet, OpenServed, CloseServed, ReadServed, Refused, KeyInv
  <1>5. PICK ok \in BOOLEAN, val \in Addrs \cup {None} : Answer(c, ok, val)
    <2>1. CASE ReadServed(c)
      BY <2>1 DEF ReadServed, KeyInv
    <2>2. CASE ~ReadServed(c)
      BY <2>2 DEF WalletRpc, NewWallet, OpenServed, CloseServed, Refused
    <2> QED BY <2>1, <2>2
  <1>6. PICK e : e = Reply(wire[c], ok, val)
    OBVIOUS
  <1>7. e \in Replied(KeysOnDisk) /\ e.op = wire[c].op
    BY <1>2, <1>3, <1>6 DEF Reply, Replied, Request, Carries
  <1>8. inbox' = Append(inbox, e)
    BY <1>2, <1>5, <1>6 DEF Answer
  <1>9. /\ Len(inbox) \in Nat /\ DOMAIN inbox = 1 .. Len(inbox) /\ DOMAIN inbox' = 1 .. Len(inbox) + 1
        /\ \A i \in 1 .. Len(inbox) : inbox'[i] = inbox[i]
        /\ inbox'[Len(inbox) + 1] = e
    BY SMTT(30), <1>2, <1>7, <1>8, AppendIs
  <1>10. \A d \in Slots : wire'[d] = IF d = c THEN Free ELSE wire[d]
    BY <1>5 DEF Answer, KeyInv
  <1>11. Free.op = "none"
    BY DEF Free, Req
  <1>12. Bound'
    <2>1. \A i \in DOMAIN inbox' : (\E j \in DOMAIN inbox : inbox'[i] = inbox[j]) \/ inbox'[i].op # "bind"
      BY SMTT(30), <1>3, <1>7, <1>9 DEF KeyOps
    <2>2. \A d \in Slots : wire'[d] = wire[d] \/ wire'[d].op # "bind"
      BY <1>10, <1>11
    <2> QED BY <1>1, <1>4, <2>1, <2>2, KeepsBound
  <1>13. FetchingToBind' => FetchingToBind
    BY SMTT(30), <1>7, <1>9, <1>10, <1>11 DEF FetchingToBind
  <1>14. Changing' => Changing
    BY SMTT(30), <1>2, <1>7, <1>9, <1>10, <1>11 DEF Changing, SessionOps
  <1> QED BY <1>1, <1>12, <1>13, <1>14 DEF Apart

(* A request of the page. *)
LEMMA StartKeepsTurn ==
  ASSUME KeyInv, Order, Apart, Bound, NEW d \in Slots, NEW r, wire' = [wire EXCEPT ![d] = r],
         UNCHANGED <<view, state, inbox, store>>, r.key = None, Named(r),
         screen = "setup" => r.op # "addressToBind" /\ (r.op \in SessionOps => ~FetchingToBind)
  PROVE  Apart' /\ Bound'
  <1>1. \A c \in Slots : wire'[c] = IF c = d THEN r ELSE wire[c]
    BY DEF KeyInv
  <1>2. UNCHANGED <<screen, canContinue, walletName, inbox, disk, keyFile>>
    BY DEF view, state, store
  <1>3. Named(r)'
    BY <1>2 DEF Named
  <1>4. Bound'
    <2>1. \A c \in Slots : wire'[c] = wire[c] \/ (Named(wire[c])' /\ wire'[c].key = None)
      BY <1>1, <1>3 DEF Named
    <2> QED BY <1>2, <2>1, KeepsBound
  <1>5. screen = "setup" /\ FetchingToBind' => FetchingToBind
    BY <1>1, <1>2 DEF FetchingToBind
  <1>6. r.op \notin SessionOps /\ Changing' => Changing
    BY <1>1, <1>2 DEF Changing
  <1> QED BY <1>2, <1>4, <1>5, <1>6 DEF Apart

LEMMA MainProcessKeepsApart ==
  ASSUME KeyInv, Order, Apart, NEW c \in Slots, MainProcess(c)
  PROVE  Apart'
  <1>1. UNCHANGED <<screen, canContinue, walletName>>
    BY DEF MainProcess, view, state
  <1>2. wire[c] \in Request(KeysOnDisk) /\ ~wire[c].late /\ inbox \in Seq(Replied(KeysOnDisk))
    BY DEF KeyInv, Order
  <1>3. wire[c].op \in KeyOps
    BY DEF MainProcess, LoadServed, BindStarts, BindRefused, BindEnds, KeyOps
  <1>4. /\ \A d \in Slots : wire'[d].op \in {wire[d].op, "none"}
        /\ \A i \in DOMAIN inbox' : inbox'[i].op \in KeyOps \/ \E j \in DOMAIN inbox : inbox'[i].op = inbox[j].op
    <2>1. CASE BindStarts(c)
      <3>1. PICK k : wire' = [wire EXCEPT ![c].key = k]
        BY <2>1 DEF BindStarts
      <3> QED BY <1>2, <2>1, <3>1 DEF BindStarts, KeyInv, Request
    <2>2. ASSUME NEW ok \in BOOLEAN, NEW val \in KeysOnDisk \cup {None}, Answer(c, ok, val)
          PROVE  /\ \A d \in Slots : wire'[d].op \in {wire[d].op, "none"}
                 /\ \A i \in DOMAIN inbox' :
                      inbox'[i].op \in KeyOps \/ \E j \in DOMAIN inbox : inbox'[i].op = inbox[j].op
      <3>1. PICK e : e = Reply(wire[c], ok, val)
        OBVIOUS
      <3>2. e \in Replied(KeysOnDisk) /\ e.op \in KeyOps
        BY <1>2, <1>3, <2>2, <3>1 DEF Reply, Replied, Request, Carries, KeyOps, AddressOps
      <3>3. inbox' = Append(inbox, e)
        BY <1>2, <2>2, <3>1 DEF Answer
      <3>4. /\ Len(inbox) \in Nat /\ DOMAIN inbox = 1 .. Len(inbox) /\ DOMAIN inbox' = 1 .. Len(inbox) + 1
            /\ \A i \in 1 .. Len(inbox) : inbox'[i] = inbox[i]
            /\ inbox'[Len(inbox) + 1] = e
        BY SMTT(40), <1>2, <3>2, <3>3, AppendIs
      <3>5. \A d \in Slots : wire'[d].op \in {wire[d].op, "none"}
        BY <2>2 DEF Answer, KeyInv, Free, Req
      <3> QED BY SMTT(40), <3>2, <3>4, <3>5
    <2>3. CASE ~BindStarts(c)
      <3>1. PICK ok \in BOOLEAN, val \in KeysOnDisk \cup {None} : Answer(c, ok, val)
        <4>1. CASE LoadServed(c)
          <5> DEFINE data == KeyOnDisk(wire[c].name)
          <5>1. data # None => data.nexus \in KeysOnDisk
            BY <1>2, SessionBounds, InKeysOnDisk DEF KeyOnDisk, Request
          <5>2. (IF data # None /\ data.crylo = wire[c].addr THEN data.nexus ELSE None) \in KeysOnDisk \cup {None}
            BY <5>1
          <5> QED BY <4>1, <5>2 DEF LoadServed
        <4>2. CASE BindRefused(c)
          BY <4>2 DEF BindRefused
        <4>3. ASSUME NEW accepted \in BOOLEAN, NEW ok \in BOOLEAN, BindEnds(c, accepted, ok)
              PROVE  \E okk \in BOOLEAN, val \in KeysOnDisk \cup {None} : Answer(c, okk, val)
          <5>1. (IF ok THEN wire[c].key ELSE None) \in KeysOnDisk \cup {None}
            BY <1>2 DEF Request
          <5> QED BY <4>3, <5>1 DEF BindEnds
        <4> QED BY <2>3, <4>1, <4>2, <4>3 DEF MainProcess
      <3> QED BY <2>2, <3>1
    <2> QED BY <2>1, <2>3
  <1>5. FetchingToBind' => FetchingToBind
    BY <1>4 DEF FetchingToBind, KeyOps
  <1>6. Changing' => Changing
    BY <1>4 DEF Changing, KeyOps, SessionOps, Order
  <1> QED BY <1>1, <1>5, <1>6 DEF Apart

LEMMA ResumeKeepsTurn ==
  ASSUME KeyInv, Order, Apart, Bound, Resume
  PROVE  Apart' /\ Bound'
  <1> DEFINE r == Head(inbox)
  <1>1. inbox # <<>> /\ inbox' = Tail(inbox) /\ UNCHANGED <<disk, keyFile>>
    BY DEF Resume, store
  <1>2. /\ \A i \in DOMAIN inbox' : i \in Nat /\ i + 1 \in DOMAIN inbox /\ inbox'[i] = inbox[i + 1]
        /\ Len(inbox) \in Nat /\ DOMAIN inbox' = 1 .. Len(inbox) - 1
        /\ r = inbox[1] /\ 1 \in DOMAIN inbox
    BY <1>1, TailIs DEF KeyInv
  <1>3. Fits(r.op)
    BY <1>2 DEF Order
  <1> HIDE DEF r
  <1>4. \A i \in DOMAIN inbox' : \E j \in DOMAIN inbox : inbox'[i] = inbox[j]
    BY <1>2
  <1>5. CASE wire' = wire
    <2>1. Bound'
      BY <1>1, <1>4, <1>5, KeepsBound
    <2>2. FetchingToBind' => FetchingToBind
      BY <1>4, <1>5 DEF FetchingToBind
    <2>3. Changing' => Changing
      BY <1>4, <1>5 DEF Changing
    <2>4. CASE r.op = "closeToSwitch"
      <3>1. walletName' = None /\ ~canContinue'
        BY <2>4 DEF Resume, r, CloseDone, CreateDone, SeedDone, OpenDone, RestoreDone, SwitchDone, AddressDone,
          KeyDone, AddressOps, KeyOps
      <3>2. \A i \in DOMAIN inbox' : inbox'[i].op \notin SessionOps
        <4> SUFFICES ASSUME NEW i \in DOMAIN inbox', inbox'[i].op \in SessionOps PROVE FALSE
          OBVIOUS
        <4>1. i + 1 = 1
          BY <1>2, <2>4 DEF Order, OneChange, SessionOps
        <4> QED BY SMTT(30), <1>2, <4>1
      <3>3. \A c \in Slots : wire[c].op \notin SessionOps
        BY <1>2, <2>4 DEF Order, OneChange, SessionOps
      <3>4. ~Changing'
        BY <1>5, <3>2, <3>3 DEF Changing
      <3> QED BY <2>1, <3>1, <3>4 DEF Apart
    <2>5. CASE r.op # "closeToSwitch" /\ r.op \in SessionOps
      <3>1. screen = "setup" /\ Changing
        BY <1>2, <1>3, <2>5 DEF Fits, Changing, KeyInv
      <3> QED BY <2>1, <2>2, <3>1 DEF Apart
    <2>6. CASE r.op \notin SessionOps
      <3>1. UNCHANGED <<screen, canContinue, walletName>>
        BY <2>6 DEF Resume, r, CloseDone, CreateDone, SeedDone, OpenDone, RestoreDone, SwitchDone, AddressDone,
          KeyDone, SessionOps, view
      <3> QED BY <2>1, <2>2, <2>3, <3>1 DEF Apart
    <2> QED BY <2>4, <2>5, <2>6
  <1>6. ASSUME NEW s, Send(s), s.key = None, Named(s), s.op # "addressToBind",
               s.op \in SessionOps => screen = "setup" /\ Changing,
               UNCHANGED <<screen, canContinue, walletName>>
        PROVE  Apart' /\ Bound'
    <2>1. PICK d \in Slots : wire' = [wire EXCEPT ![d] = s]
      BY <1>6, SendTakes
    <2>2. \A c \in Slots : wire'[c] = IF c = d THEN s ELSE wire[c]
      BY <2>1 DEF KeyInv
    <2>3. Named(s)'
      BY <1>1, <1>6 DEF Named
    <2>4. Bound'
      <3>1. \A c \in Slots : wire'[c] = wire[c] \/ (Named(wire[c])' /\ wire'[c].key = None)
        BY <1>6, <2>2, <2>3 DEF Named
      <3> QED BY <1>1, <1>4, <3>1, KeepsBound
    <2>5. FetchingToBind' => FetchingToBind
      BY <1>4, <1>6, <2>2 DEF FetchingToBind
    <2>6. s.op \notin SessionOps /\ Changing' => Changing
      BY <1>4, <2>2 DEF Changing
    <2> QED BY <1>6, <2>4, <2>5, <2>6 DEF Apart
  <1>7. ASSUME NEW op \in {"create", "open", "seed"}, NEW n, Send(Req(op, n, None)), UNCHANGED <<view, state>>,
               r.op \in {"closeToCreate", "closeToOpen", "create"}
        PROVE  Apart' /\ Bound'
    <2>1. PICK s : s = Req(op, n, None)
      OBVIOUS
    <2>2. s.key = None /\ s.op = op /\ Named(s)
      BY <1>7, <2>1 DEF Req, Named
    <2>3. screen = "setup" /\ Changing
      BY <1>2, <1>3, <1>7 DEF Fits, Changing, KeyInv, SessionOps
    <2> QED BY <1>6, <1>7, <2>1, <2>2, <2>3 DEF view, state
  <1>8. CASE CloseDone(r)
    <2>1. PICK op \in {"create", "open"} : op = IF r.op = "closeToCreate" THEN "create" ELSE "open"
      OBVIOUS
    <2>2. PICK n : n = r.name
      OBVIOUS
    <2> QED BY <1>7, <1>8, <2>1, <2>2 DEF CloseDone
  <1>9. CASE CreateDone(r)
    <2>1. PICK n : n = r.name
      OBVIOUS
    <2> QED BY <1>5, <1>7, <1>9, <2>1 DEF CreateDone
  <1>10. CASE AddressDone(r)
    <2>1. CASE r.ok
      <3>1. PICK s : s = Req(IF r.op = "addressToBind" THEN "bind" ELSE "load", walletName, r.val)
        OBVIOUS
      <3>2. s.key = None /\ s.op \in KeyOps /\ s.name = walletName /\ s.addr = r.val
            /\ (s.op = "bind" => r.op = "addressToBind")
        BY <3>1 DEF Req, KeyOps
      <3>3. Named(s)
        <4> SUFFICES ASSUME r.op = "addressToBind", walletName # None PROVE r.val = disk[walletName]
          BY <3>2 DEF Named
        <4>1. FetchingToBind
          BY <1>2 DEF FetchingToBind
        <4>2. screen = "main"
          BY <4>1 DEF Apart, KeyInv
        <4>3. OfWallet(1, walletName)
          BY <1>2, <4>2 DEF Order, Settled
        <4> QED BY <1>2, <1>10, <2>1, <4>3 DEF OfWallet, AddressDone
      <3>4. s.op \notin SessionOps /\ s.op # "addressToBind"
        BY <3>2 DEF KeyOps, SessionOps
      <3> QED BY <1>6, <1>10, <2>1, <3>1, <3>2, <3>3, <3>4 DEF AddressDone, view
    <2>2. CASE ~r.ok
      BY <1>5, <1>10, <2>2 DEF AddressDone
    <2> QED BY <2>1, <2>2
  <1>11. CASE SeedDone(r) \/ OpenDone(r) \/ RestoreDone(r) \/ SwitchDone(r) \/ KeyDone(r)
    BY <1>5, <1>11 DEF SeedDone, OpenDone, RestoreDone, SwitchDone, KeyDone
  <1> QED BY <1>8, <1>9, <1>10, <1>11 DEF Resume, r

LEMMA NextKeepsTurn ==
  ASSUME KeyInv, OrderInv, TurnInv, [Next]_vars
  PROVE  TurnInv'
  <1> SUFFICES ASSUME inTurn' PROVE Turn'
    BY DEF TurnInv
  <1>1. inTurn
    BY DEF Next, CreateWallet, OpenWallet, RestoreWallet, SetupRequest, Continue, Back, SwitchWallet,
      LoadAddress, LoadSavedNexus, CreateBoundNexus, WalletRpc, MainProcess, TimeOut, Resume, Restart, history, vars
  <1>2. orderly /\ Apart /\ Bound /\ Order
    BY <1>1 DEF TurnInv, Turn, OrderInv
  <1>3. orderly'
    BY <1>2 DEF Next, CreateWallet, OpenWallet, RestoreWallet, SetupRequest, Continue, Back, SwitchWallet,
      LoadAddress, LoadSavedNexus, CreateBoundNexus, WalletRpc, MainProcess, TimeOut, Resume, Restart, history, vars
  <1> SUFFICES Apart' /\ Bound'
    BY <1>3 DEF Turn
  <1>4. ASSUME NEW op, NEW n, NEW a, Send(Req(op, n, a)), UNCHANGED <<view, state, inbox, store>>,
               op = "bind" /\ n # None /\ a # None => a = disk[n],
               screen = "setup" => op # "addressToBind" /\ (op \in SessionOps => ~FetchingToBind)
        PROVE  Apart' /\ Bound'
    <2>1. PICK r : r = Req(op, n, a)
      OBVIOUS
    <2>2. r.op = op /\ r.name = n /\ r.addr = a /\ r.key = None
      BY <2>1 DEF Req
    <2>3. PICK d \in Slots : wire' = [wire EXCEPT ![d] = r]
      BY <1>4, <2>1, SendTakes
    <2>4. Named(r)
      BY <1>4, <2>2 DEF Named
    <2> QED BY <1>2, <1>4, <2>2, <2>3, <2>4, StartKeepsTurn
  <1>5. ASSUME NEW op \in {"closeToCreate", "closeToOpen", "restore"}, NEW n, NEW a, SetupRequest(Req(op, n, a))
        PROVE  Apart' /\ Bound'
    BY <1>4, <1>5 DEF SetupRequest
  <1>6. ASSUME NEW n \in Names, CreateWallet(n) \/ OpenWallet(n) PROVE Apart' /\ Bound'
    BY <1>5, <1>6 DEF CreateWallet, OpenWallet
  <1>7. ASSUME NEW n \in Names, NEW a \in Addrs, RestoreWallet(n, a) PROVE Apart' /\ Bound'
    BY <1>5, <1>7 DEF RestoreWallet
  <1>8. ASSUME UNCHANGED <<wire, inbox, disk, keyFile, walletName>>, screen' = "main" \/ screen' = screen,
               canContinue' => canContinue
        PROVE  Apart' /\ Bound'
    <2>1. Bound'
      BY <1>2, <1>8, KeepsBound
    <2> QED BY <1>2, <1>8, <2>1 DEF Apart, FetchingToBind, Changing
  <1>9. CASE Continue \/ Back \/ UNCHANGED vars
    <2>1. UNCHANGED <<wire, inbox, disk, keyFile, walletName>> /\ (screen' = "main" \/ screen' = screen)
      BY <1>9 DEF Continue, Back, vars, view, state, store
    <2>2. canContinue' => canContinue
      BY <1>9 DEF Continue, Back, vars, view
    <2> QED BY <1>8, <2>1, <2>2
  <1>10. CASE SwitchWallet
    BY <1>4, <1>10 DEF SwitchWallet
  <1>11. CASE LoadAddress
    BY <1>4, <1>11 DEF LoadAddress, SessionOps
  <1>12. CASE LoadSavedNexus
    <2>1. PICK n, a : n = walletName /\ a = address
      OBVIOUS
    <2> QED BY <1>4, <1>12, <2>1 DEF LoadSavedNexus
  <1>13. CASE CreateBoundNexus
    <2>1. PICK n, a : n = walletName /\ a = address
      OBVIOUS
    <2>2. a # None => a = disk[n]
      BY <1>2, <1>13, <2>1 DEF CreateBoundNexus, Order, Settled
    <2> QED BY <1>4, <1>13, <2>1, <2>2 DEF CreateBoundNexus
  <1>14. ASSUME NEW c \in Slots, WalletRpc(c) \/ MainProcess(c) PROVE Apart' /\ Bound'
    BY <1>2, <1>14, WalletRpcKeepsTurn, MainProcessKeepsApart, MainProcessKeepsBound
  <1>15. ASSUME NEW c \in Slots, TimeOut(c) PROVE FALSE
    BY <1>15 DEF TimeOut
  <1>16. CASE Resume
    BY <1>2, <1>16, ResumeKeepsTurn
  <1>17. CASE Restart
    <2>1. \A c \in Slots : wire'[c].op = "none"
      BY <1>17 DEF Restart, Free, Req
    <2>2. DOMAIN inbox' = {}
      BY SMTT(30), <1>17 DEF Restart
    <2>3. Bound'
      BY <1>2, <1>17, <2>1, <2>2, KeepsBound DEF Restart
    <2> QED BY <2>1, <2>2, <2>3 DEF Apart, FetchingToBind
  <1> QED BY <1>6, <1>7, <1>9, <1>10, <1>11, <1>12, <1>13, <1>14, <1>15, <1>16, <1>17 DEF Next

-----------------------------------------------------------------------------
(* Every key that is registered or shown is in a key file: main.js writes   *)
(* the file before registerBoundNexusWallet and never writes one again.     *)
THEOREM KeysSafe == Spec => []KnownKeysOnDisk
  <1>1. KeyInv => KnownKeysOnDisk
    BY DEF KeyInv, KnownKeysOnDisk
  <1> QED BY <1>1, InitKeyInv, NextKeepsKeys, PTL DEF Spec

(* A key file, once written, is neither changed nor removed, whatever is    *)
(* retried, times out or is cut short by the end of the application.        *)
THEOREM KeyFilesStay ==
  Spec => [][\A f \in Files : keyFile[f] # None => keyFile'[f] = keyFile[f]]_vars
  <1> DEFINE Stay == \A f \in Files : keyFile[f] # None => keyFile'[f] = keyFile[f]
  <1>1. ASSUME KeyInv, Next PROVE Stay
    <2>1. ASSUME NEW c \in Slots, BindStarts(c) PROVE Stay
      <3>1. wire[c].name # None /\ KeyOnDisk(wire[c].name) = keyFile[FileOf(wire[c].name)]
        BY <2>1 DEF BindStarts, KeyOnDisk
      <3> QED BY <1>1, <2>1, <3>1 DEF BindStarts, KeyInv
    <2>2. (\E c \in Slots : BindStarts(c)) \/ keyFile' = keyFile
      BY <1>1 DEF Next, CreateWallet, OpenWallet, RestoreWallet, SetupRequest, Continue, Back, SwitchWallet,
        LoadAddress, LoadSavedNexus, CreateBoundNexus, WalletRpc, MainProcess, LoadServed, BindRefused,
        BindEnds, TimeOut, Resume, Restart, store
    <2> QED BY <2>1, <2>2
  <1>2. KeyInv /\ [Next]_vars => [Stay]_vars
    BY <1>1
  <1> QED BY <1>2, InitKeyInv, NextKeepsKeys, PTL DEF Spec

LEMMA InitOrder == Init => OrderInv /\ TurnInv
  <1> SUFFICES ASSUME Init PROVE Order /\ Turn
    BY DEF OrderInv, TurnInv
  <1>1. \A c \in Slots : wire[c].op = "none" /\ ~wire[c].late
    BY DEF Init, Free, Req
  <1>2. DOMAIN inbox = {} /\ screen = "setup" /\ ~canContinue /\ orderly
    BY SMTT(30) DEF Init
  <1>3. Order
    BY <1>1, <1>2 DEF Order, OneChange, Fits, SessionOps
  <1>4. \A n \in Names : keyFile[FileOf(n)] = None
    BY SessionBounds DEF Init
  <1>5. Turn
    BY <1>1, <1>2, <1>4 DEF Turn, Apart, FetchingToBind, Bound, Named, Keyed
  <1> QED BY <1>3, <1>5

(* Creating, opening, restoring and switching wallets (app.js), with any     *)
(* number of wallets and of requests in flight: while requests are answered *)
(* in time and session changes do not overlap, the main screen works on the *)
(* wallet it names and with the address of that wallet.  This is so in      *)
(* every session, also after earlier ones that were not orderly.            *)
THEOREM SessionsAgree == Spec => []SessionAgrees
  <1>1. OrderInv => SessionAgrees
    <2> SUFFICES ASSUME Order, ~Changing, screen = "main"
                 PROVE  open = walletName /\ (address # None => address = disk[walletName])
      BY DEF OrderInv, SessionAgrees
    <2>1. Settled /\ \A i \in DOMAIN inbox : inbox[i].op # "closeToSwitch"
      BY DEF Order, Changing, SessionOps
    <2> QED BY <2>1 DEF Settled
  <1> QED BY <1>1, InitKeyInv, NextKeepsKeys, InitOrder, NextKeepsOrder, PTL DEF Spec

(* nexus-wallet-create (main.js) is asked with the address of the wallet it *)
(* is asked for and answers with the key in that wallet's file, bound to    *)
(* the address of a wallet whose name leads to that file: of no other       *)
(* wallet than the one asked for unless safeNexusFileName makes their names *)
(* one.  This holds for any number of wallets and any sharing of files,     *)
(* through failures, retries and restarts, as long as sessions are in turn. *)
THEOREM KeysBoundAsAsked == Spec => []BoundAsAsked
  <1>1. KeyInv /\ TurnInv => BoundAsAsked
    <2> SUFFICES ASSUME KeyInv, Turn, NEW i \in DOMAIN inbox, inbox[i].op = "bind", inbox[i].ok
                 PROVE  /\ inbox[i].addr = disk[inbox[i].name]
                        /\ \E n \in Names :
                             /\ FileOf(n) = FileOf(inbox[i].name)
                             /\ keyFile[FileOf(n)] = [crylo |-> disk[n], nexus |-> inbox[i].val]
      BY DEF TurnInv, BoundAsAsked
    <2>1. /\ inbox[i].name \in Names /\ inbox[i].addr = disk[inbox[i].name]
          /\ keyFile[FileOf(inbox[i].name)] # None /\ keyFile[FileOf(inbox[i].name)].nexus = inbox[i].val
      BY DEF Turn, Bound, Filed, Holds, InFile
    <2>2. PICK n \in Names : FileOf(n) = FileOf(inbox[i].name) /\ keyFile[FileOf(n)].crylo = disk[n]
      BY <2>1 DEF Turn, Bound, OfAName
    <2>3. keyFile[FileOf(n)] \in [crylo : Addrs, nexus : Keys]
      BY <2>1, <2>2, SessionBounds DEF KeyInv
    <2>4. keyFile[FileOf(n)] = [crylo |-> keyFile[FileOf(n)].crylo, nexus |-> keyFile[FileOf(n)].nexus]
      BY <2>3
    <2> QED BY <2>1, <2>2, <2>4
  <1>2. KeyInv /\ OrderInv /\ TurnInv /\ [Next]_vars => TurnInv'
    BY NextKeepsTurn
  <1> QED BY <1>1, <1>2, InitKeyInv, NextKeepsKeys, InitOrder, NextKeepsOrder, PTL DEF Spec

----------------------------------------------------------------------------
(* Nexus: the inductive invariant.                                          *)

Steps == {"approve", "act"}
JobType ==
  [kind : AllKinds \cup {Nil}, stage : {"idle", "gas", "nonce", "send", "wait", "over"},
   by : Wallets \cup {Nil}, topup : BOOLEAN, step : Steps, nonce : Nat,
   told : {"nothing", "completed", "failed"}]
TxType == [nonce : Nat, job : Jobs, step : Steps, kind : AllKinds]
MinedType == [job : Jobs, step : Steps, kind : AllKinds, ok : BOOLEAN]
AccountType == [token : Nat, staked : Nat, node : BOOLEAN, allow : SUBSET AllKinds]

TypeOK ==
  /\ opened \in Wallets \cup {Nil}
  /\ job \in [Jobs -> JobType]
  /\ pool \in [Wallets -> SUBSET TxType]
  /\ log \in [Wallets -> Seq(MinedType)]
  /\ account \in [Wallets -> AccountType]
  /\ nft \in [owner : Wallets \cup {Vault, Burned}, approved : BOOLEAN]
  /\ config \in Wallets \cup {Nil}

(* Every nonce of w below n is mined or waits. *)
Reached(w, n) == \A k \in Nat : Len(log[w]) <= k /\ k < n => \E t \in pool[w] : t.nonce = k

(* The transaction of w before the one with nonce n approves it. *)
Approved(w, n, j, k) ==
  n \in DOMAIN log[w] /\ log[w][n] = [job |-> j, step |-> "approve", kind |-> k, ok |-> TRUE]

(* What waits at the node: one transaction per nonce, none that is mined,   *)
(* none after a gap, and a call that needs an approval right after it.      *)
Pool(w) ==
  /\ \E b \in Nat : \A t \in pool[w] : t.nonce < b
  /\ \A t, u \in pool[w] : t.nonce = u.nonce => t = u
  /\ \A t \in pool[w] :
       /\ t.nonce >= Len(log[w])
       /\ Reached(w, t.nonce)
       /\ t.step = "act" /\ t.kind \in Approving => Approved(w, t.nonce, t.job, t.kind)

(* The transaction a handler waits for is its own, at its nonce. *)
SentBy(w, n, j, step, k) ==
  \/ [nonce |-> n, job |-> j, step |-> step, kind |-> k] \in pool[w]
  \/ /\ n + 1 \in DOMAIN log[w]
     /\ log[w][n + 1].job = j /\ log[w][n + 1].step = step /\ log[w][n + 1].kind = k

(* The action of a job of kind k was mined and went through. *)
ActedAs(j, k) == \E w \in Wallets : \E i \in DOMAIN log[w] :
  log[w][i].ok /\ log[w][i].job = j /\ log[w][i].step = "act" /\ log[w][i].kind = k

(* Record r of job j agrees with the chain. *)
Handler(j, r) ==
  /\ r.topup => r.kind \in GasChecked
  /\ r.stage = "gas" => r.kind \in GasChecked
  /\ r.stage \in {"nonce", "send", "wait"} => r.by \in Wallets /\ r.kind \in AllKinds
  /\ r.stage # "over" => r.told = "nothing"
  /\ r.stage = "send" =>
       /\ Reached(r.by, r.nonce)
       /\ r.step = "act" /\ Running(r) \in Approving => Approved(r.by, r.nonce, j, Running(r))
  /\ r.stage = "wait" => SentBy(r.by, r.nonce, j, r.step, Running(r))
  /\ r.told = "completed" /\ r.kind # "buyback" => ActedAs(j, r.kind)

IInv ==
  /\ TypeOK
  /\ \A w \in Wallets : Pool(w)
  /\ \A j \in Jobs : Handler(j, job[j])
  /\ OwnApproval
  /\ ConfigIsRegistered

----------------------------------------------------------------------------
(* A set of naturals that is not empty has a least element. *)
LEMMA LeastNatural ==
  ASSUME NEW S, S \subseteq Nat, S # {}
  PROVE  \E x \in S : \A y \in S : x <= y
  <1> DEFINE R == OpToRel(<, Nat)
  <1>1. R = {p \in Nat \X Nat : p[1] < p[2]} /\ IsWellFoundedOn(R, Nat)
    BY ZenonT(30), NatLessThanWellFounded DEF OpToRel
  <1> HIDE DEF R
  <1>2. PICK x \in S : \A y \in S : <<y, x>> \notin R
    BY <1>1, WFMin
  <1>3. ASSUME NEW y \in S PROVE x <= y
    <2>1. <<y, x>> \notin {p \in Nat \X Nat : p[1] < p[2]}
      BY <1>1, <1>2
    <2> QED BY SMTT(30), <2>1
  <1> QED BY <1>3

(* getTransactionCount hands out a nonce that leaves no gap. *)
LEMMA PendingReached ==
  ASSUME TypeOK, NEW w \in Wallets, Pool(w)
  PROVE  PendingCount(w) \in Nat /\ Reached(w, PendingCount(w))
  <1> DEFINE C == {Len(log[w])} \cup {t.nonce + 1 : t \in pool[w]}
             S == {n \in C : \A t \in pool[w] : t.nonce # n}
             B == {b \in Nat : \A t \in pool[w] : t.nonce < b}
  <1>1. log[w] \in Seq(MinedType) /\ pool[w] \subseteq TxType
    BY DEF TypeOK
  <1>2. Len(log[w]) \in Nat /\ \A t \in pool[w] : t.nonce \in Nat
    BY SMTT(30), <1>1 DEF TxType
  <1>3. C \subseteq Nat
    BY SMTT(30), <1>2
  <1>4. S # {}
    <2>1. PICK b \in B : \A c \in B : b <= c
      <3>1. B # {} /\ B \subseteq Nat
        BY DEF Pool
      <3> HIDE DEF B
      <3> QED BY <3>1, LeastNatural
    <2>2. CASE \E t \in pool[w] : t.nonce + 1 = b
      BY SMTT(30), <1>2, <2>2
    <2>3. CASE ~\E t \in pool[w] : t.nonce + 1 = b
      <3>1. b = 0 \/ b - 1 \in B
        BY SMTT(30), <1>2, <2>3
      <3>2. b = 0
        BY SMTT(30), <2>1, <3>1
      <3>3. pool[w] = {}
        BY SMTT(30), <1>2, <3>2
      <3> QED BY <3>3
    <2> QED BY <2>2, <2>3
  <1>5. PICK m \in S : m = PendingCount(w)
    <2>1. S \subseteq Nat
      BY <1>3
    <2>2. PICK z \in S : \A y \in S : z <= y
      <3> HIDE DEF S
      <3> QED BY <1>4, <2>1, LeastNatural
    <2>3. PendingCount(w) = CHOOSE x \in S : \A y \in S : x <= y
      BY ZenonT(30) DEF PendingCount, Min
    <2>4. (CHOOSE x \in S : \A y \in S : x <= y) \in S
      <3> HIDE DEF S
      <3> QED BY ZenonT(30), <2>2
    <2> QED BY ZenonT(30), <2>3, <2>4
  <1>6. CASE m = Len(log[w])
    BY SMTT(30), <1>2, <1>5, <1>6 DEF Reached
  <1>7. CASE m # Len(log[w])
    <2>1. PICK t \in pool[w] : m = t.nonce + 1
      BY <1>5, <1>7
    <2>2. Reached(w, t.nonce)
      BY DEF Pool
    <2>3. ASSUME NEW k \in Nat, Len(log[w]) <= k, k < m
          PROVE  \E u \in pool[w] : u.nonce = k
      <3>1. t.nonce \in Nat
        BY <1>2
      <3>2. CASE k = t.nonce
        BY <3>2
      <3>3. CASE k < t.nonce
        BY <2>2, <2>3, <3>3 DEF Reached
      <3> QED BY SMTT(30), <2>1, <2>3, <3>1, <3>2, <3>3
    <2>4. m \in Nat
      BY <1>3, <1>5
    <2> QED BY <1>5, <2>3, <2>4 DEF Reached
  <1> QED BY <1>6, <1>7

----------------------------------------------------------------------------
(* What the chain has shown stays true.                                     *)

Grows ==
  /\ \A w \in Wallets : \A n \in Nat : Reached(w, n) => Reached(w, n)'
  /\ \A w \in Wallets : \A n \in Nat : \A j, k : Approved(w, n, j, k) => Approved(w, n, j, k)'
  /\ \A w \in Wallets : \A n \in Nat : \A j, step, k :
       SentBy(w, n, j, step, k) => SentBy(w, n, j, step, k)'
  /\ \A j, k : ActedAs(j, k) => ActedAs(j, k)'

LEMMA MoreSentGrows ==
  ASSUME TypeOK, log' = log, \A w \in Wallets : pool[w] \subseteq pool'[w]
  PROVE  Grows
  <1>1. \A w \in Wallets : \A n \in Nat : Reached(w, n) => Reached(w, n)'
    BY DEF Reached
  <1>2. \A w \in Wallets : \A n \in Nat : \A j, k : Approved(w, n, j, k) => Approved(w, n, j, k)'
    BY DEF Approved
  <1>3. \A w \in Wallets : \A n \in Nat : \A j, step, k :
          SentBy(w, n, j, step, k) => SentBy(w, n, j, step, k)'
    BY SMTT(30) DEF SentBy
  <1>4. \A j, k : ActedAs(j, k) => ActedAs(j, k)'
    BY DEF ActedAs
  <1> QED BY <1>1, <1>2, <1>3, <1>4 DEF Grows

LEMMA HandlerKept ==
  ASSUME Grows, NEW j \in Jobs, NEW r \in JobType, Handler(j, r)
  PROVE  Handler(j, r)'
  BY DEF Grows, Handler, JobType

LEMMA RunningType ==
  ASSUME NEW r \in JobType, r.kind \in AllKinds
  PROVE  Running(r) \in AllKinds
  BY DEF Running, AllKinds, JobType

(* Records a handler can leave behind. *)
LEMMA FailedKept ==
  ASSUME NEW j \in Jobs, NEW r \in JobType, r.topup => r.kind \in GasChecked
  PROVE  Failed(r) \in JobType /\ Handler(j, Failed(r))
  <1> DEFINE told == IF r.kind = "buyback" /\ ~r.topup THEN "completed" ELSE "failed"
             f == [r EXCEPT !.stage = "over", !.told = told]
  <1>1. Failed(r) = f
    BY DEF Failed
  <1>2. /\ f \in JobType /\ f.stage = "over" /\ f.told = told
        /\ f.topup = r.topup /\ f.kind = r.kind
    BY DEF JobType
  <1> HIDE DEF f
  <1> QED BY <1>1, <1>2 DEF Handler

LEMMA CallKept ==
  ASSUME TypeOK, NEW j \in Jobs, NEW r \in JobType, NEW topup \in BOOLEAN,
         r.kind \in AllKinds, r.told = "nothing", topup => r.kind \in GasChecked
  PROVE  Call(r, topup) \in JobType /\ Handler(j, Call(r, topup))
  <1>0. PICK w \in Wallets \cup {Nil} : w = opened
    BY DEF TypeOK
  <1> DEFINE c == [r EXCEPT !.topup = topup, !.by = w]
             d == [c EXCEPT !.stage = "nonce"]
  <1>1. /\ c \in JobType /\ c.topup = topup /\ c.by = w /\ c.kind = r.kind /\ c.told = "nothing"
    BY DEF JobType
  <1>2. Call(r, topup) = IF w = Nil THEN Failed(c) ELSE d
    BY <1>0 DEF Call
  <1> HIDE DEF c
  <1>3. CASE w = Nil
    BY <1>1, <1>2, <1>3, FailedKept
  <1>4. CASE w # Nil
    <2>1. /\ d \in JobType /\ d.topup = topup /\ d.by = w /\ d.kind = r.kind
          /\ d.told = "nothing" /\ d.stage = "nonce"
      BY <1>1 DEF JobType
    <2> HIDE DEF d
    <2> QED BY <1>2, <1>4, <2>1 DEF Handler
  <1> QED BY <1>3, <1>4

(* Steps that leave the chain alone; then those of one job. *)
LEMMA JobsStep ==
  ASSUME IInv, job' \in [Jobs -> JobType], \A j \in Jobs : Handler(j, job'[j]),
         opened' \in Wallets \cup {Nil}, UNCHANGED chain,
         config' \in Wallets \cup {Nil}, ConfigIsRegistered'
  PROVE  IInv'
  <1>1. UNCHANGED <<pool, log, account, nft>>
    BY DEF chain
  <1>2. TypeOK'
    BY <1>1 DEF IInv, TypeOK
  <1>3. \A w \in Wallets : Pool(w)'
    BY <1>1 DEF IInv, Pool, Reached, Approved
  <1>4. Grows
    BY <1>1, MoreSentGrows DEF IInv
  <1>5. ASSUME NEW i \in Jobs PROVE Handler(i, job[i])'
    <2>1. PICK u \in JobType : u = job'[i] /\ Handler(i, u)
      OBVIOUS
    <2>2. Handler(i, u)'
      BY <1>4, <2>1, HandlerKept
    <2> QED BY <2>1, <2>2
  <1>6. OwnApproval'
    BY <1>1 DEF IInv, OwnApproval
  <1> QED BY <1>2, <1>3, <1>5, <1>6 DEF IInv

LEMMA JobStep ==
  ASSUME IInv, NEW j \in Jobs, NEW r \in JobType, job' = [job EXCEPT ![j] = r], Handler(j, r),
         opened' \in Wallets \cup {Nil}, UNCHANGED chain,
         config' \in Wallets \cup {Nil}, ConfigIsRegistered'
  PROVE  IInv'
  <1>1. job \in [Jobs -> JobType] /\ \A i \in Jobs : Handler(i, job[i])
    BY DEF IInv, TypeOK
  <1>2. job' \in [Jobs -> JobType] /\ \A i \in Jobs : Handler(i, job'[i])
    BY <1>1
  <1> QED BY <1>2, JobsStep

LEMMA ConfigKept ==
  ASSUME IInv, UNCHANGED <<chain, config>>
  PROVE  config' \in Wallets \cup {Nil} /\ ConfigIsRegistered'
  BY DEF IInv, TypeOK, ConfigIsRegistered, chain

----------------------------------------------------------------------------
(* One lemma per action.                                                    *)

LEMMA ClickStep ==
  ASSUME IInv, NEW j \in Jobs, NEW k \in Kinds, Click(j, k)
  PROVE  IInv'
  <1> DEFINE r == [NewJob EXCEPT !.kind = k]
             g == [r EXCEPT !.stage = "gas"]
  <1>1. k \in AllKinds
    BY NexusBounds
  <1>2. /\ r \in JobType /\ r.kind = k /\ r.told = "nothing"
        /\ g \in JobType /\ g.kind = k /\ g.told = "nothing" /\ g.stage = "gas" /\ g.topup = FALSE
    BY <1>1 DEF NewJob, JobType, Steps
  <1>3. /\ job' = [job EXCEPT ![j] = IF k \in GasChecked THEN g ELSE Call(r, FALSE)]
        /\ UNCHANGED <<opened, chain, config>>
    BY DEF Click
  <1> HIDE DEF r, g
  <1>4. CASE k \in GasChecked
    <2>1. Handler(j, g)
      BY <1>2, <1>4 DEF Handler
    <2> QED BY <1>2, <1>3, <1>4, <2>1, JobStep, ConfigKept DEF IInv, TypeOK
  <1>5. CASE k \notin GasChecked
    <2>1. PICK u \in JobType : u = Call(r, FALSE) /\ Handler(j, u)
      BY <1>1, <1>2, CallKept DEF IInv
    <2> QED BY <1>3, <1>5, <2>1, JobStep, ConfigKept DEF IInv, TypeOK
  <1> QED BY <1>4, <1>5

LEMMA GasChecksStep ==
  ASSUME IInv, NEW j \in Jobs, GasChecks(j)
  PROVE  IInv'
  <1>1. PICK r \in JobType : r = job[j] /\ Handler(j, r)
    BY DEF IInv, TypeOK
  <1>2. r.kind \in GasChecked /\ r.told = "nothing" /\ r.kind \in AllKinds
    BY <1>1 DEF GasChecks, Handler, GasChecked
  <1> DEFINE d == [r EXCEPT !.stage = "over", !.told = "failed"]
  <1>3. d \in JobType /\ Handler(j, d)
    <2>1. d \in JobType /\ d.stage = "over" /\ d.told = "failed" /\ d.kind = r.kind
      BY DEF JobType
    <2> HIDE DEF d
    <2> QED BY <1>2, <2>1 DEF Handler
  <1>4. PICK u \in {Call(r, FALSE), Call(r, TRUE), d} :
          job' = [job EXCEPT ![j] = u] /\ UNCHANGED <<opened, chain, config>>
    BY <1>1 DEF GasChecks
  <1> HIDE DEF d
  <1>5. u \in JobType /\ Handler(j, u)
    BY <1>2, <1>3, <1>4, CallKept DEF IInv
  <1> QED BY <1>4, <1>5, JobStep, ConfigKept DEF IInv, TypeOK

LEMMA ReadNonceStep ==
  ASSUME IInv, NEW j \in Jobs, ReadNonce(j)
  PROVE  IInv'
  <1>1. PICK r \in JobType : r = job[j] /\ Handler(j, r)
    BY DEF IInv, TypeOK
  <1>2. /\ r.stage = "nonce" /\ r.by \in Wallets /\ r.kind \in AllKinds /\ r.told = "nothing"
        /\ r.topup => r.kind \in GasChecked
    BY <1>1 DEF ReadNonce, Handler
  <1>3. PICK n \in Nat : n = PendingCount(r.by) /\ Reached(r.by, n)
    BY <1>2, PendingReached DEF IInv
  <1> DEFINE s == FirstStep(r)
             d == [r EXCEPT !.stage = "send", !.step = s, !.nonce = n]
  <1>4. s \in Steps /\ (s = "act" => Running(r) \notin Approving)
    BY DEF FirstStep, Steps
  <1>5. d \in JobType /\ Handler(j, d)
    <2> HIDE DEF s
    <2>1. /\ d \in JobType /\ d.stage = "send" /\ d.step = s /\ d.nonce = n
          /\ d.by = r.by /\ d.kind = r.kind /\ d.told = r.told /\ d.topup = r.topup
      BY <1>4 DEF JobType
    <2>2. Running(d) = Running(r)
      BY <2>1 DEF Running
    <2> HIDE DEF d
    <2> QED BY <1>2, <1>3, <1>4, <2>1, <2>2 DEF Handler
  <1>6. Failed(r) \in JobType /\ Handler(j, Failed(r))
    BY <1>2, FailedKept
  <1>7. /\ \/ job' = [job EXCEPT ![j] = Failed(r)]
           \/ job' = [job EXCEPT ![j] = d]
        /\ UNCHANGED <<opened, chain, config>>
    BY <1>1, <1>3 DEF ReadNonce
  <1>8. PICK u \in JobType : job' = [job EXCEPT ![j] = u] /\ Handler(j, u)
    BY <1>5, <1>6, <1>7
  <1> QED BY <1>7, <1>8, JobStep, ConfigKept DEF IInv, TypeOK

LEMMA BreaksOffStep ==
  ASSUME IInv, NEW j \in Jobs, BreaksOff(j)
  PROVE  IInv'
  <1>1. PICK r \in JobType : r = job[j] /\ Handler(j, r)
    BY DEF IInv, TypeOK
  <1>2. Failed(r) \in JobType /\ Handler(j, Failed(r))
    BY <1>1, FailedKept DEF Handler
  <1>3. job' = [job EXCEPT ![j] = Failed(r)] /\ UNCHANGED <<opened, chain, config>>
    BY <1>1 DEF BreaksOff
  <1> QED BY <1>2, <1>3, JobStep, ConfigKept DEF IInv, TypeOK

(* The receipt a handler gets is that of its own transaction. *)
LEMMA WaitedStep ==
  ASSUME IInv, NEW j \in Jobs, Waited(j)
  PROVE  IInv'
  <1>1. PICK r \in JobType : r = job[j] /\ Handler(j, r)
    BY DEF IInv, TypeOK
  <1>2. /\ r.stage = "wait" /\ r.by \in Wallets /\ r.kind \in AllKinds /\ r.told = "nothing"
        /\ r.topup => r.kind \in GasChecked
        /\ r.nonce < Len(log[r.by]) /\ r.nonce \in Nat
    BY <1>1 DEF Waited, Handler, JobType
  <1>3. log[r.by] \in Seq(MinedType) /\ pool[r.by] \subseteq TxType
    BY <1>2 DEF IInv, TypeOK
  <1> DEFINE n == r.nonce
             e == log[r.by][n + 1]
             k == Running(r)
  <1>4. n + 1 \in DOMAIN log[r.by] /\ e \in MinedType
    BY SMTT(30), <1>2, <1>3
  <1>5. e.job = j /\ e.step = r.step /\ e.kind = k
    <2>1. SentBy(r.by, n, j, r.step, k)
      BY <1>1, <1>2 DEF Handler
    <2>2. [nonce |-> n, job |-> j, step |-> r.step, kind |-> k] \notin pool[r.by]
      BY SMTT(30), <1>2, <1>3 DEF IInv, Pool
    <2> QED BY <2>1, <2>2 DEF SentBy
  <1>6. PICK u : /\ job' = [job EXCEPT ![j] = u]
                 /\ u = IF e.ok THEN Onward(r) ELSE Failed(r)
                 /\ SavesConfig(r) /\ UNCHANGED <<opened, chain>>
    BY <1>1 DEF Waited
  <1>7. u \in JobType /\ Handler(j, u)
    <2>1. CASE ~e.ok
      BY <1>2, <1>6, <2>1, FailedKept
    <2>2. CASE e.ok /\ r.step = "approve"
      <3>0. PICK m \in Nat : m = n + 1
        BY SMTT(30), <1>2
      <3> DEFINE d == [r EXCEPT !.stage = "send", !.step = "act", !.nonce = m]
      <3>1. u = d
        BY <1>6, <2>2, <3>0 DEF Onward, NonceAfter
      <3>2. /\ d \in JobType /\ d.stage = "send" /\ d.step = "act" /\ d.nonce = m
            /\ d.by = r.by /\ d.kind = r.kind /\ d.told = r.told /\ d.topup = r.topup
        BY DEF JobType, Steps
      <3>3. Running(d) = k
        BY <3>2 DEF Running
      <3> HIDE DEF d
      <3>4. Reached(r.by, m)
        BY SMTT(30), <1>2, <1>3, <3>0 DEF Reached
      <3>5. Approved(r.by, m, j, k)
        BY <1>4, <1>5, <2>2, <3>0 DEF Approved, MinedType
      <3> HIDE DEF k
      <3> QED BY <1>2, <3>1, <3>2, <3>3, <3>4, <3>5 DEF Handler
    <2>3. CASE e.ok /\ r.step # "approve" /\ r.topup
      BY <1>2, <1>6, <2>3, CallKept DEF Onward, IInv
    <2>4. CASE e.ok /\ r.step # "approve" /\ ~r.topup
      <3> DEFINE d == [r EXCEPT !.stage = "over", !.told = "completed"]
      <3>1. u = d
        BY <1>6, <2>4 DEF Onward
      <3>2. /\ d \in JobType /\ d.stage = "over" /\ d.told = "completed"
            /\ d.kind = r.kind /\ d.topup = r.topup
        BY DEF JobType
      <3>3. r.step = "act" /\ k = r.kind
        BY <2>4 DEF JobType, Steps, Running
      <3>4. ActedAs(j, r.kind)
        BY <1>2, <1>4, <1>5, <2>4, <3>3 DEF ActedAs
      <3> HIDE DEF d
      <3> QED BY <1>2, <3>1, <3>2, <3>4 DEF Handler
    <2> QED BY <2>1, <2>2, <2>3, <2>4
  <1>8. config' \in Wallets \cup {Nil} /\ ConfigIsRegistered'
    <2>1. CASE r.kind = "register" /\ r.step = "act" /\ e.ok
      <3>1. k = "register"
        BY <1>2, <2>1 DEF Running, GasChecked
      <3>2. config' = r.by /\ log' = log
        BY <1>6, <2>1 DEF SavesConfig, chain
      <3> QED BY <1>2, <1>4, <1>5, <2>1, <3>1, <3>2 DEF ConfigIsRegistered
    <2>2. CASE ~(r.kind = "register" /\ r.step = "act" /\ e.ok)
      BY <1>6, <2>2, ConfigKept DEF SavesConfig
    <2> QED BY <2>1, <2>2
  <1> QED BY <1>6, <1>7, <1>8, JobStep DEF IInv, TypeOK

(* A transaction the node takes is the next one without a gap. *)
LEMMA SendStep ==
  ASSUME IInv, NEW j \in Jobs, SendTx(j)
  PROVE  IInv'
  <1>1. PICK r \in JobType : r = job[j] /\ Handler(j, r)
    BY DEF IInv, TypeOK
  <1>2. /\ r.stage = "send" /\ r.by \in Wallets /\ r.kind \in AllKinds /\ r.told = "nothing"
        /\ r.topup => r.kind \in GasChecked
        /\ Reached(r.by, r.nonce) /\ r.nonce \in Nat
        /\ r.step = "act" /\ Running(r) \in Approving => Approved(r.by, r.nonce, j, Running(r))
    BY <1>1 DEF SendTx, Handler, JobType
  <1>3. UNCHANGED <<opened, log, account, nft, config>>
    BY DEF SendTx
  <1> DEFINE t == [nonce |-> r.nonce, job |-> j, step |-> r.step, kind |-> Running(r)]
             d == [r EXCEPT !.stage = "wait"]
  <1>4. CASE UNCHANGED pool /\ job' = [job EXCEPT ![j] = Failed(r)]
    <2>1. Failed(r) \in JobType /\ Handler(j, Failed(r))
      BY <1>2, FailedKept
    <2> QED BY <1>3, <1>4, <2>1, JobStep, ConfigKept DEF IInv, TypeOK, chain
  <1>5. CASE /\ pool' = [pool EXCEPT ![r.by] = @ \cup {t}] /\ job' = [job EXCEPT ![j] = d]
             /\ Accepts(r.by, r.nonce)
    <2>1. /\ t \in TxType /\ t.nonce = r.nonce /\ t.job = j /\ t.step = r.step
          /\ t.kind = Running(r)
      BY <1>2, RunningType DEF TxType, JobType
    <2>2. /\ d \in JobType /\ d.stage = "wait" /\ d.nonce = r.nonce /\ d.step = r.step
          /\ d.by = r.by /\ d.kind = r.kind /\ d.told = r.told /\ d.topup = r.topup
          /\ Running(d) = Running(r)
      BY DEF JobType, Running
    <2>3. t = [nonce |-> r.nonce, job |-> j, step |-> r.step, kind |-> Running(r)]
      OBVIOUS
    <2>4. job' = [job EXCEPT ![j] = d] /\ pool' = [pool EXCEPT ![r.by] = @ \cup {t}]
      BY <1>5
    <2> HIDE DEF t, d
    <2>5. /\ pool \in [Wallets -> SUBSET TxType] /\ log \in [Wallets -> Seq(MinedType)]
          /\ job \in [Jobs -> JobType]
      BY DEF IInv, TypeOK
    <2>6. /\ pool'[r.by] = pool[r.by] \cup {t} /\ pool' \in [Wallets -> SUBSET TxType]
          /\ \A w \in Wallets \ {r.by} : pool'[w] = pool[w]
      BY <1>2, <2>1, <2>4, <2>5
    <2>7. TypeOK'
      BY <1>3, <2>2, <2>4, <2>5, <2>6 DEF IInv, TypeOK
    <2>8. Grows
      BY <1>3, <2>6, MoreSentGrows DEF IInv
    <2>9. ASSUME NEW w \in Wallets PROVE Pool(w)'
      <3>1. Pool(w)
        BY DEF IInv
      <3>2. \A u \in pool[w] : u.nonce \in Nat
        BY SMTT(30), <2>5 DEF TxType
      <3>3. ASSUME NEW u \in pool[w]
            PROVE  /\ u.nonce >= Len(log'[w])
                   /\ Reached(w, u.nonce)'
                   /\ u.step = "act" /\ u.kind \in Approving => Approved(w, u.nonce, u.job, u.kind)'
        BY <1>3, <2>8, <3>1, <3>2 DEF Pool, Grows
      <3>4. CASE w # r.by
        BY <2>6, <3>1, <3>3, <3>4 DEF Pool
      <3>5. CASE w = r.by
        <4>1. r.nonce >= Len(log[w]) /\ \A u \in pool[w] : u.nonce # r.nonce
          BY <1>5, <3>5 DEF Accepts
        <4>2. /\ t.nonce >= Len(log'[w]) /\ Reached(w, t.nonce)'
              /\ t.step = "act" /\ t.kind \in Approving => Approved(w, t.nonce, t.job, t.kind)'
          BY <1>2, <1>3, <2>1, <2>8, <3>5, <4>1 DEF Grows
        <4>3. \A u, v \in pool'[w] : u.nonce = v.nonce => u = v
          BY <2>1, <2>6, <3>1, <3>5, <4>1 DEF Pool
        <4>4. \E b \in Nat : \A u \in pool'[w] : u.nonce < b
          <5>1. PICK b \in Nat : \A u \in pool[w] : u.nonce < b
            BY <3>1 DEF Pool
          <5>2. \A u \in pool'[w] : u.nonce < b + r.nonce + 1
            BY SMTT(30), <1>2, <2>1, <2>6, <3>2, <3>5, <5>1
          <5> QED BY SMTT(30), <1>2, <5>2
        <4> QED BY <2>6, <3>3, <3>5, <4>2, <4>3, <4>4 DEF Pool
      <3> QED BY <3>4, <3>5
    <2>10. ASSUME NEW i \in Jobs PROVE Handler(i, job[i])'
      <3>1. CASE i = j
        <4>1. SentBy(r.by, r.nonce, j, r.step, Running(r))'
          BY <2>3, <2>6 DEF SentBy
        <4>2. Handler(j, d)'
          BY <1>2, <2>2, <4>1 DEF Handler
        <4> QED BY <2>4, <2>5, <3>1, <4>2
      <3>2. CASE i # j
        <4>1. PICK u \in JobType : u = job[i] /\ u = job'[i] /\ Handler(i, u)
          BY <2>4, <2>5, <3>2 DEF IInv
        <4>2. Handler(i, u)'
          BY <2>8, <4>1, HandlerKept
        <4> QED BY <4>1, <4>2
      <3> QED BY <3>1, <3>2
    <2>11. OwnApproval' /\ ConfigIsRegistered'
      BY <1>3 DEF IInv, OwnApproval, ConfigIsRegistered
    <2> QED BY <2>7, <2>9, <2>10, <2>11 DEF IInv
  <1> QED BY <1>1, <1>4, <1>5 DEF SendTx

(* The contracts keep the types of the balances. *)
LEMMA AccountTyped ==
  ASSUME TypeOK, NEW w \in Wallets, NEW step \in Steps, NEW kind \in AllKinds,
         Possible(w, step, kind)
  PROVE  AccountAfter(account[w], step, kind) \in AccountType
  <1>1. PICK a \in AccountType : a = account[w]
    BY DEF TypeOK
  <1> SUFFICES AccountAfter(a, step, kind) \in AccountType
    BY <1>1
  <1>2. a.token \in Nat /\ a.staked \in Nat /\ a.node \in BOOLEAN /\ a.allow \subseteq AllKinds
    BY DEF AccountType
  <1>3. ASSUME NEW t \in Nat, NEW s \in Nat, NEW n \in BOOLEAN, NEW l \in SUBSET AllKinds
        PROVE  /\ [a EXCEPT !.allow = l] \in AccountType
               /\ [a EXCEPT !.token = t, !.staked = s, !.allow = l] \in AccountType
               /\ [a EXCEPT !.token = t, !.allow = l] \in AccountType
               /\ [a EXCEPT !.token = t, !.node = n, !.allow = l] \in AccountType
               /\ [a EXCEPT !.token = t] \in AccountType
               /\ [a EXCEPT !.staked = s, !.token = t] \in AccountType
               /\ [a EXCEPT !.node = n, !.token = t] \in AccountType
    BY DEF AccountType
  <1>4. a.allow \cup ({kind} \ NftKinds) \in SUBSET AllKinds /\ a.allow \ {kind} \in SUBSET AllKinds
        /\ a.token + 1 \in Nat /\ a.staked + 1 \in Nat
    BY SMTT(30), <1>2
  <1>5. CASE step = "approve"
    BY <1>3, <1>4, <1>5 DEF AccountAfter
  <1>6. CASE step # "approve" /\ kind \in {"stake", "buyGas", "register", "burnForCryLo"}
    <2>1. a.token - 1 \in Nat
      BY SMTT(30), <1>1, <1>2, <1>6 DEF Possible, Steps
    <2> QED BY <1>2, <1>3, <1>4, <1>6, <2>1 DEF AccountAfter
  <1>7. CASE step # "approve" /\ kind = "unstake"
    <2>1. a.staked - 1 \in Nat
      BY SMTT(30), <1>1, <1>2, <1>7 DEF Possible, Steps
    <2> QED BY <1>3, <1>4, <1>7, <2>1 DEF AccountAfter
  <1>8. CASE step # "approve" /\ kind = "unregister"
    BY <1>3, <1>4, <1>8 DEF AccountAfter
  <1>9. CASE /\ step # "approve"
             /\ kind \notin {"stake", "buyGas", "register", "burnForCryLo", "unstake", "unregister"}
    BY <1>9 DEF AccountAfter
  <1> QED BY <1>5, <1>6, <1>7, <1>8, <1>9

LEMMA PossibleBoolean ==
  ASSUME NEW w, NEW step, NEW kind
  PROVE  Possible(w, step, kind) \in BOOLEAN
  BY ZenonT(30) DEF Possible

LEMMA NftTyped ==
  ASSUME TypeOK, NEW step \in Steps, NEW kind \in AllKinds
  PROVE  NftAfter(step, kind) \in [owner : Wallets \cup {Vault, Burned}, approved : BOOLEAN]
  BY DEF TypeOK, NftAfter, Steps

LEMMA ApprovalOf ==
  ASSUME NEW r \in MinedType
  PROVE  [r EXCEPT !.step = "approve", !.ok = TRUE]
           = [job |-> r.job, step |-> "approve", kind |-> r.kind, ok |-> TRUE]
  <1> DEFINE x == [r EXCEPT !.step = "approve", !.ok = TRUE]
             y == [job |-> r.job, step |-> "approve", kind |-> r.kind, ok |-> TRUE]
  <1>1. x \in MinedType /\ x.job = r.job /\ x.step = "approve" /\ x.kind = r.kind /\ x.ok = TRUE
    BY DEF MinedType, Steps
  <1>2. y \in MinedType /\ y.job = r.job /\ y.step = "approve" /\ y.kind = r.kind /\ y.ok = TRUE
    BY DEF MinedType, Steps
  <1> HIDE DEF x, y
  <1>3. x = y
    BY SMTT(30), <1>1, <1>2 DEF MinedType
  <1> QED BY <1>3 DEF x, y

LEMMA AppendAt ==
  ASSUME NEW S, NEW f \in Seq(S), NEW e \in S
  PROVE  /\ Append(f, e) \in Seq(S) /\ Len(Append(f, e)) = Len(f) + 1
         /\ Append(f, e)[Len(f) + 1] = e
         /\ \A i \in DOMAIN f : i \in DOMAIN Append(f, e) /\ Append(f, e)[i] = f[i]
         /\ DOMAIN f = 1 .. Len(f) /\ DOMAIN Append(f, e) = 1 .. Len(f) + 1 /\ Len(f) \in Nat
  BY SMTT(30)

(* Mining moves the transaction with the next nonce from the pool to the    *)
(* log and takes nothing back.                                              *)
LEMMA MineStep ==
  ASSUME IInv, NEW w \in Wallets, Mine(w)
  PROVE  IInv'
  <1>1. PICK t \in pool[w] :
          LET ok == Possible(w, t.step, t.kind) IN
          /\ t.nonce = Len(log[w])
          /\ pool' = [pool EXCEPT ![w] = @ \ {t}]
          /\ log' = [log EXCEPT ![w] = Append(@, [job |-> t.job, step |-> t.step, kind |-> t.kind, ok |-> ok])]
          /\ account' = IF ok THEN [account EXCEPT ![w] = AccountAfter(@, t.step, t.kind)] ELSE account
          /\ nft' = IF ok THEN NftAfter(t.step, t.kind) ELSE nft
          /\ UNCHANGED <<opened, job, config>>
    BY DEF Mine
  <1>2. PICK ok \in BOOLEAN : ok = Possible(w, t.step, t.kind)
    BY PossibleBoolean
  <1>3. /\ pool \in [Wallets -> SUBSET TxType] /\ log \in [Wallets -> Seq(MinedType)]
        /\ account \in [Wallets -> AccountType] /\ TypeOK
    BY DEF IInv, TypeOK
  <1>4. t \in TxType /\ t.nonce \in Nat /\ t.step \in Steps /\ t.kind \in AllKinds /\ t.job \in Jobs
    BY SMTT(30), <1>3 DEF TxType
  <1> DEFINE L == Len(log[w])
             e == [job |-> t.job, step |-> t.step, kind |-> t.kind, ok |-> ok]
  <1>5. e \in MinedType /\ e.job = t.job /\ e.step = t.step /\ e.kind = t.kind /\ e.ok = ok
    BY <1>4 DEF MinedType
  <1>6. /\ log'[w] = Append(log[w], e) /\ pool'[w] = pool[w] \ {t}
        /\ \A v \in Wallets \ {w} : log'[v] = log[v] /\ pool'[v] = pool[v]
    BY <1>1, <1>2, <1>3
  <1>7. t.nonce = L /\ UNCHANGED <<opened, job, config>>
    BY <1>1
  <1> HIDE DEF e
  <1>8. /\ log'[w] \in Seq(MinedType) /\ Len(log'[w]) = L + 1 /\ log'[w][L + 1] = e
        /\ \A i \in DOMAIN log[w] : i \in DOMAIN log'[w] /\ log'[w][i] = log[w][i]
        /\ DOMAIN log[w] = 1 .. L /\ DOMAIN log'[w] = 1 .. L + 1 /\ L \in Nat
    BY SMTT(30), <1>3, <1>5, <1>6, AppendAt
  <1>9. TypeOK'
    <2>1. pool' \in [Wallets -> SUBSET TxType] /\ log' \in [Wallets -> Seq(MinedType)]
      <3>1. pool' = [pool EXCEPT ![w] = pool[w] \ {t}] /\ log' = [log EXCEPT ![w] = log'[w]]
        BY <1>1, <1>3
      <3> QED BY <1>3, <1>8, <3>1
    <2>2. account' \in [Wallets -> AccountType]
      BY <1>1, <1>3, <1>4, AccountTyped
    <2>3. nft' \in [owner : Wallets \cup {Vault, Burned}, approved : BOOLEAN]
      BY <1>1, <1>3, <1>4, NftTyped DEF TypeOK
    <2> QED BY <1>3, <1>7, <2>1, <2>2, <2>3 DEF TypeOK
  <1>10. Pool(w)
    BY DEF IInv
  <1>11. \A u \in pool[w] : u.nonce = L => u = t
    BY <1>7, <1>10 DEF Pool
  <1>12. Grows
    <2>1. ASSUME NEW v \in Wallets, NEW n \in Nat, Reached(v, n) PROVE Reached(v, n)'
      <3>1. CASE v # w
        BY <1>6, <2>1, <3>1 DEF Reached
      <3>2. CASE v = w
        <4> SUFFICES ASSUME NEW k \in Nat, L + 1 <= k, k < n
                     PROVE  \E u \in pool'[w] : u.nonce = k
          BY <1>8, <3>2 DEF Reached
        <4>1. Reached(w, n) /\ L <= k
          BY SMTT(30), <1>8, <2>1, <3>2
        <4>2. PICK u \in pool[w] : u.nonce = k
          BY <4>1 DEF Reached
        <4> QED BY SMTT(30), <1>6, <1>7, <1>8, <4>2
      <3> QED BY <3>1, <3>2
    <2>2. ASSUME NEW v \in Wallets, NEW n \in Nat, NEW j, NEW k, Approved(v, n, j, k)
          PROVE  Approved(v, n, j, k)'
      BY <1>6, <1>8, <2>2 DEF Approved
    <2>3. ASSUME NEW v \in Wallets, NEW n \in Nat, NEW j, NEW step, NEW k, SentBy(v, n, j, step, k)
          PROVE  SentBy(v, n, j, step, k)'
      <3>1. CASE v # w
        BY <1>6, <2>3, <3>1 DEF SentBy
      <3>2. CASE v = w
        <4> DEFINE u == [nonce |-> n, job |-> j, step |-> step, kind |-> k]
        <4>1. CASE u \in pool[w] /\ u # t
          BY <1>6, <3>2, <4>1 DEF SentBy
        <4>2. CASE u = t
          <5>1. t.nonce = n /\ t.job = j /\ t.step = step /\ t.kind = k
            BY <4>2
          <5> QED BY SMTT(30), <1>5, <1>7, <1>8, <3>2, <5>1 DEF SentBy
        <4>3. CASE u \notin pool[w]
          BY <1>8, <2>3, <3>2, <4>3 DEF SentBy
        <4> QED BY <4>1, <4>2, <4>3
      <3> QED BY <3>1, <3>2
    <2>4. ASSUME NEW j, NEW k, ActedAs(j, k) PROVE ActedAs(j, k)'
      <3>0. PICK v \in Wallets : \E i \in DOMAIN log[v] :
              log[v][i].ok /\ log[v][i].job = j /\ log[v][i].step = "act" /\ log[v][i].kind = k
        BY <2>4 DEF ActedAs
      <3>1. PICK i \in DOMAIN log[v] :
              log[v][i].ok /\ log[v][i].job = j /\ log[v][i].step = "act" /\ log[v][i].kind = k
        BY <3>0
      <3>2. i \in DOMAIN log'[v] /\ log'[v][i] = log[v][i]
        BY <1>6, <1>8
      <3> QED BY <3>1, <3>2 DEF ActedAs
    <2> QED BY <2>1, <2>2, <2>3, <2>4 DEF Grows
  <1>13. ASSUME NEW v \in Wallets PROVE Pool(v)'
    <2>1. Pool(v) /\ pool'[v] \subseteq pool[v] /\ \A u \in pool[v] : u.nonce \in Nat
      BY SMTT(30), <1>3, <1>6 DEF IInv, TxType
    <2>2. ASSUME NEW u \in pool'[v]
          PROVE  /\ u.nonce >= Len(log'[v]) /\ Reached(v, u.nonce)'
                 /\ u.step = "act" /\ u.kind \in Approving => Approved(v, u.nonce, u.job, u.kind)'
      <3>1. u.nonce >= Len(log'[v])
        <4>1. CASE v # w
          BY <1>6, <2>1, <4>1 DEF Pool
        <4>2. CASE v = w
          <5>1. u.nonce >= L /\ u.nonce # L /\ u.nonce \in Nat
            BY <1>6, <1>11, <2>1, <4>2 DEF Pool
          <5> QED BY SMTT(30), <1>8, <4>2, <5>1
        <4> QED BY <4>1, <4>2
      <3> QED BY <1>12, <2>1, <3>1 DEF Pool, Grows
    <2> QED BY <2>1, <2>2 DEF Pool
  <1>14. ASSUME NEW j \in Jobs PROVE Handler(j, job[j])'
    <2>1. PICK r \in JobType : r = job[j] /\ r = job'[j] /\ Handler(j, r)
      BY <1>7 DEF IInv, TypeOK
    <2>2. Handler(j, r)'
      BY <1>12, <2>1, HandlerKept
    <2> QED BY <2>1, <2>2
  <1>15. OwnApproval'
    <2> SUFFICES ASSUME NEW v \in Wallets, NEW i \in DOMAIN log'[v],
                        log'[v][i].step = "act", log'[v][i].kind \in Approving
                 PROVE  /\ i > 1
                        /\ log'[v][i - 1] = [log'[v][i] EXCEPT !.step = "approve", !.ok = TRUE]
      BY DEF OwnApproval
    <2>1. CASE i \in DOMAIN log[v]
      <3>1. log'[v][i] = log[v][i] /\ log[v] \in Seq(MinedType)
        BY <1>3, <1>6, <1>8, <2>1
      <3>2. i > 1 /\ log[v][i - 1] = [log[v][i] EXCEPT !.step = "approve", !.ok = TRUE]
        BY <2>1, <3>1 DEF IInv, OwnApproval
      <3>3. i - 1 \in DOMAIN log[v]
        BY SMTT(30), <2>1, <3>1, <3>2
      <3>4. log'[v][i - 1] = log[v][i - 1]
        BY <1>6, <1>8, <3>3
      <3> QED BY <3>1, <3>2, <3>4
    <2>2. CASE i \notin DOMAIN log[v]
      <3>1. v = w /\ i = L + 1 /\ log'[v][i] = e
        BY SMTT(30), <1>6, <1>8, <2>2
      <3>2. Approved(w, L, t.job, t.kind)
        BY <1>5, <1>7, <1>10, <3>1 DEF Pool
      <3>3. L \in DOMAIN log[w] /\ log'[w][L] = [job |-> t.job, step |-> "approve", kind |-> t.kind, ok |-> TRUE]
        BY <1>8, <3>2 DEF Approved
      <3>4. [e EXCEPT !.step = "approve", !.ok = TRUE]
              = [job |-> t.job, step |-> "approve", kind |-> t.kind, ok |-> TRUE]
        BY <1>5, ApprovalOf
      <3>5. i > 1 /\ i - 1 = L
        BY SMTT(30), <1>8, <3>1, <3>3
      <3> QED BY <3>1, <3>3, <3>4, <3>5
    <2> QED BY <2>1, <2>2
  <1>16. ConfigIsRegistered'
    <2> SUFFICES ASSUME config # Nil PROVE ConfigIsRegistered'
      BY <1>7 DEF ConfigIsRegistered
    <2>1. config \in Wallets
      BY <1>3 DEF TypeOK
    <2>2. PICK i \in DOMAIN log[config] :
            log[config][i].ok /\ log[config][i].kind = "register" /\ log[config][i].step = "act"
      BY DEF IInv, ConfigIsRegistered
    <2>3. i \in DOMAIN log'[config] /\ log'[config][i] = log[config][i]
      BY <1>6, <1>8, <2>1
    <2> QED BY <1>7, <2>2, <2>3 DEF ConfigIsRegistered
  <1> QED BY <1>9, <1>13, <1>14, <1>15, <1>16 DEF IInv

LEMMA SameJobs ==
  ASSUME IInv, job' = job, opened' \in Wallets \cup {Nil}, UNCHANGED <<chain, config>>
  PROVE  IInv'
  <1>1. job \in [Jobs -> JobType] /\ \A i \in Jobs : Handler(i, job[i])
    BY DEF IInv, TypeOK
  <1>2. job' \in [Jobs -> JobType] /\ \A i \in Jobs : Handler(i, job'[i])
    BY <1>1
  <1> QED BY <1>2, JobsStep, ConfigKept

LEMMA SwitchWalletStep ==
  ASSUME IInv, NEW w \in Wallets \cup {Nil}, OpenOther(w)
  PROVE  IInv'
  BY SameJobs DEF OpenOther

LEMMA StutterStep ==
  ASSUME IInv, UNCHANGED nexusVars
  PROVE  IInv'
  BY SameJobs DEF nexusVars, chain, IInv, TypeOK

LEMMA RestartStep ==
  ASSUME IInv, Relaunch
  PROVE  IInv'
  <1>1. ASSUME NEW j \in Jobs
        PROVE  job'[j] \in JobType /\ Handler(j, job'[j])
    <2>1. PICK r \in JobType : r = job[j] /\ Handler(j, r)
      BY DEF IInv, TypeOK
    <2>2. job'[j] = IF r.stage \in {"idle", "over"} THEN r ELSE [r EXCEPT !.stage = "over"]
      BY <2>1 DEF Relaunch
    <2>3. CASE r.stage \in {"idle", "over"}
      BY <2>1, <2>2, <2>3
    <2>4. CASE r.stage \notin {"idle", "over"}
      <3>1. PICK d \in JobType : /\ d = job'[j] /\ d.stage = "over" /\ d.told = r.told
                                 /\ d.kind = r.kind /\ d.topup = r.topup
        BY <2>2, <2>4 DEF JobType
      <3>2. Handler(j, d)
        BY <2>1, <2>4, <3>1 DEF Handler
      <3> QED BY <3>1, <3>2
    <2> QED BY <2>3, <2>4
  <1>2. job' \in [Jobs -> JobType]
    <2>1. job' = [j \in Jobs |-> job'[j]]
      BY DEF Relaunch
    <2> QED BY <1>1, <2>1
  <1> QED BY <1>1, <1>2, JobsStep, ConfigKept DEF Relaunch

LEMMA InitIInv == NexusInit => IInv
  <1> SUFFICES ASSUME NexusInit PROVE IInv
    OBVIOUS
  <1>1. job \in [Jobs -> JobType]
    BY DEF NexusInit, NewJob, JobType, Steps
  <1>2. account \in [Wallets -> AccountType]
    BY NexusBounds DEF NexusInit, AccountType
  <1>3. TypeOK
    <2>1. pool \in [Wallets -> SUBSET TxType] /\ log \in [Wallets -> Seq(MinedType)]
      BY SMTT(30) DEF NexusInit
    <2>2. nft \in [owner : Wallets \cup {Vault, Burned}, approved : BOOLEAN]
      BY DEF NexusInit
    <2> QED BY <1>1, <1>2, <2>1, <2>2 DEF NexusInit, TypeOK
  <1>4. ASSUME NEW j \in Jobs PROVE Handler(j, job[j])
    <2>1. job[j].stage = "idle" /\ job[j].told = "nothing" /\ job[j].topup = FALSE
      BY DEF NexusInit, NewJob
    <2> QED BY <2>1 DEF Handler
  <1>5. \A w \in Wallets : Pool(w)
    BY DEF NexusInit, Pool
  <1>6. OwnApproval /\ ConfigIsRegistered
    BY SMTT(30) DEF NexusInit, OwnApproval, ConfigIsRegistered
  <1> QED BY <1>3, <1>4, <1>5, <1>6 DEF IInv

LEMMA NextIInv == IInv /\ [NexusNext]_nexusVars => IInv'
  <1> SUFFICES ASSUME IInv, [NexusNext]_nexusVars PROVE IInv'
    OBVIOUS
  <1> QED BY ClickStep, GasChecksStep, ReadNonceStep, SendStep, BreaksOffStep, WaitedStep, MineStep,
             SwitchWalletStep, RestartStep, StutterStep DEF NexusNext

LEMMA IInvHolds == NexusSpec => []IInv
  BY InitIInv, NextIInv, PTL DEF NexusSpec

----------------------------------------------------------------------------
(* Whatever is sent can be mined: the nonces that the handlers of main.js   *)
(* read and count on never leave a gap, for any clicks, switches, restarts  *)
(* and failures in between.                                                 *)
THEOREM NoncesHaveNoGap == NexusSpec => []NoNonceGap
  <1>1. IInv => NoNonceGap
    <2> SUFFICES ASSUME IInv, NEW w \in Wallets, NEW t \in pool[w], NEW n \in Len(log[w]) .. t.nonce
                 PROVE  \E u \in pool[w] : u.nonce = n
      BY DEF NoNonceGap
    <2>1. log[w] \in Seq(MinedType) /\ t.nonce \in Nat /\ Reached(w, t.nonce)
      BY SMTT(30) DEF IInv, TypeOK, TxType, Pool
    <2>2. Len(log[w]) \in Nat
      BY SMTT(30), <2>1
    <2>3. CASE n = t.nonce
      BY <2>3
    <2>4. CASE n < t.nonce
      BY SMTT(30), <2>1, <2>2, <2>4 DEF Reached
    <2> QED BY SMTT(30), <2>1, <2>2, <2>3, <2>4
  <1> QED BY <1>1, IInvHolds, PTL

(* A stake, a gas purchase, a registration or a buyback is mined right      *)
(* after the approval of the same click, which went through.                *)
THEOREM ApprovalsAreOwn == NexusSpec => []OwnApproval
  <1>1. IInv => OwnApproval
    BY DEF IInv
  <1> QED BY <1>1, IInvHolds, PTL

(* "completed" is shown, the buyback aside, only for an action that was     *)
(* mined and went through for that very click.                              *)
THEOREM CompletedWasDone == NexusSpec => []CompletedIsDone
  <1>1. IInv => CompletedIsDone
    BY SMTT(30) DEF IInv, Handler, CompletedIsDone, Acted, ActedAs
  <1> QED BY <1>1, IInvHolds, PTL

(* saveOperatorConfig writes an account only once its registration was      *)
(* mined.                                                                   *)
THEOREM ConfigWasRegistered == NexusSpec => []ConfigIsRegistered
  <1>1. IInv => ConfigIsRegistered
    BY DEF IInv
  <1> QED BY <1>1, IInvHolds, PTL

----------------------------------------------------------------------------
(***************************************************************************)
(* EndedStopsWalletRpc needs to know that a launch has at most one         *)
(* wallet-rpc that runs, the one walletProc refers to: startBackend runs   *)
(* once per launch, because a window that is opened again finds            *)
(* shuttingDown set.  And once the window was closed after the end of      *)
(* startBackend, nothing starts it again.                                  *)
(***************************************************************************)
Boots == {"none", "askDaemon", "sleepDaemon", "askWallet", "sleepWallet"}

BackendType ==
  /\ launch \in Nat /\ window \in {"none", "loading", "shown"} /\ boot \in Boots
  /\ closing \in {"none", "wallet", "daemon", "quit", "menu"}
  /\ walletProc \in Procs \cup {NoProc}
  /\ procs \in [Procs -> [state : Living \cup {"unused", "exited"}, launch : Nat]]

(* No wallet-rpc of this launch was spawned yet. *)
Fresh == \A p \in Procs : procs[p].launch < launch

BackendInv ==
  /\ BackendType
  /\ \A p \in Procs : procs[p].launch <= launch
  /\ closing \notin Over => launch > 0 /\ (shuttingDown <=> closing # "none")
  /\ On /\ ~shuttingDown => window # "none" /\ (window = "loading" => boot = "none" /\ Fresh)
  /\ On /\ boot \in {"askDaemon", "sleepDaemon"} => Fresh
  /\ closing \in Over => boot = "none"
  /\ \A p \in Leftover : p = walletProc
  /\ ended /\ closing # "none" => boot = "none"
  /\ ended /\ closing \in {"daemon", "quit"} => Leftover = {}

LEMMA BackendInvInit == BackendInit => BackendInv
  <1> SUFFICES ASSUME BackendInit PROVE BackendInv
    OBVIOUS
  <1>1. /\ Unused \in [state : Living \cup {"unused", "exited"}, launch : Nat]
        /\ Unused.launch = 0 /\ Unused.state \notin Living
    BY SMTT(30) DEF Unused, Living
  <1>2. \A p \in Procs : procs[p] = Unused
    BY SMTT(30) DEF BackendInit
  <1>3. BackendType
    BY SMTT(30), <1>1 DEF BackendInit, BackendType, Boots
  <1>4. Leftover = {}
    BY SMTT(30), <1>1, <1>2 DEF Leftover, Started
  <1>5. \A p \in Procs : procs[p].launch <= launch
    BY SMTT(30), <1>1, <1>2 DEF BackendInit
  <1> QED BY SMTT(30), <1>3, <1>4, <1>5 DEF BackendInit, BackendInv, On, Over

(* The bounds are in sight from here on. *)
USE BackendBounds

LEMMA BackendInvNext ==
  ASSUME BackendInv, [BackendNext]_backendVars
  PROVE  BackendInv'
  <1> USE DEF BackendBounds, BackendInv, BackendType, Boots, Living, On, Over, Fresh,
              Leftover, Started
  <1>1. CASE Launch
    <2>1. BackendType'
      <3>1. launch' \in Nat
        BY SMTT(30), <1>1 DEF Launch
      <3> QED BY ZenonT(30), <1>1, <3>1 DEF Launch
    <2>2. \A p \in Procs : procs'[p].launch < launch'
      BY SMTT(30), <1>1 DEF Launch
    <2>3. Leftover' = {}
      <3>1. \A p \in Procs : procs'[p].launch # launch'
        BY SMTT(30), <1>1, <2>1, <2>2 DEF Launch
      <3> QED BY ZenonT(30), <3>1
    <2> QED BY SMTT(30), <1>1, <2>1, <2>2, <2>3 DEF Launch
  <1>2. CASE Activate
    BY SMTT(30), <1>2 DEF Activate
  <1>3. CASE ReadyToShow
    BY SMTT(30), <1>3 DEF ReadyToShow
  <1>4. CASE DaemonAnswers
    BY SMTT(30), <1>4 DEF DaemonAnswers, Attempt, Tell
  <1>5. CASE WalletAnswers
    BY SMTT(30), <1>5 DEF WalletAnswers, Tell
  <1>6. CASE AskFails
    BY SMTT(30), <1>6 DEF AskFails, Sleep, Tell
  <1>7. CASE SleepOver
    BY SMTT(30), <1>7 DEF SleepOver, Ask, Attempt, Tell
  <1>8. CASE CloseWindow
    <2>1. /\ procs' \in [Procs -> [state : Living \cup {"unused", "exited"}, launch : Nat]]
          /\ \A p \in Procs : procs'[p].launch = procs[p].launch /\ (Started(p)' <=> Started(p))
      BY SMTT(30), <1>8 DEF CloseWindow, AliveWallet
    <2>2. BackendType'
      BY SMTT(30), <1>8, <2>1 DEF CloseWindow
    <2>3. Leftover' = Leftover
      BY SMTT(30), <1>8, <2>1 DEF CloseWindow
    <2>4. closing' = "daemon" /\ closing = "none" => Leftover = {}
      BY SMTT(30), <1>8 DEF CloseWindow, AliveWallet
    <2>5. closing # "none" => (ended' <=> ended)
      BY <1>8 DEF CloseWindow
    <2>6. closing = "none" => (ended' <=> boot = "none")
      BY <1>8 DEF CloseWindow
    <2>7. shuttingDown' /\ closing' \notin {"none", "quit", "menu"} /\ boot' = boot /\ launch' = launch /\ walletProc' = walletProc
      BY SMTT(30), <1>8 DEF CloseWindow
    <2>8. closing # "none" => closing' = closing
      BY SMTT(30), <1>8 DEF CloseWindow
    <2>9. launch > 0 /\ closing \notin Over
      BY SMTT(30), <1>8 DEF CloseWindow
    <2> QED BY SMTT(30), <2>1, <2>2, <2>3, <2>4, <2>5, <2>6, <2>7, <2>8, <2>9
  <1>9. CASE ForceKill
    <2>1. /\ procs' \in [Procs -> [state : Living \cup {"unused", "exited"}, launch : Nat]]
          /\ \A p \in Procs : procs'[p].launch = procs[p].launch
          /\ \A p \in Procs \ {walletProc} : procs'[p] = procs[p]
          /\ walletProc \in Procs => procs'[walletProc].state = "exited"
      <3>1. CASE walletProc \in Procs
        BY SMTT(30), <1>9, <3>1 DEF ForceKill
      <3>2. CASE walletProc \notin Procs
        <4>1. procs' = procs
          BY SMTT(30), <1>9, <3>2 DEF ForceKill
        <4> QED BY SMTT(30), <4>1, <3>2
      <3> QED BY <3>1, <3>2
    <2>2. BackendType'
      BY SMTT(30), <1>9, <2>1 DEF ForceKill
    <2>3. Leftover' = {}
      BY SMTT(30), <1>9, <2>1 DEF ForceKill
    <2> QED BY SMTT(30), <1>9, <2>1, <2>2, <2>3 DEF ForceKill
  <1>10. CASE Quit
    BY SMTT(30), <1>10 DEF Quit
  <1>menu. CASE MenuQuit
    BY SMTT(30), <1>menu DEF MenuQuit
  <1>11. ASSUME NEW p \in Procs, Bind(p) PROVE BackendInv'
    BY SMTT(30), <1>11 DEF Bind, HoldsPort
  <1>12. ASSUME NEW p \in Procs, Exit(p) PROVE BackendInv'
    BY SMTT(30), <1>12 DEF Exit
  <1>13. CASE UNCHANGED backendVars
    BY SMTT(30), <1>13 DEF backendVars
  <1> QED BY <1>1, <1>2, <1>3, <1>4, <1>5, <1>6, <1>7, <1>8, <1>9, <1>10, <1>menu, <1>11, <1>12, <1>13 DEF BackendNext

(* However the processes behave, a launch that has quit leaves at most the  *)
(* wallet-rpc that walletProc (main.js) refers to, and none when it quit    *)
(* because its window was closed after the end of startBackend.             *)
THEOREM WalletRpcIsStopped ==
  BackendSpec => []EndedStopsWalletRpc
  <1>1. BackendInv => EndedStopsWalletRpc
    BY DEF BackendInv, EndedStopsWalletRpc, Quitted
  <1>2. BackendInv /\ [BackendNext]_backendVars => BackendInv'
    BY BackendInvNext
  <1> QED BY <1>1, <1>2, BackendInvInit, PTL DEF BackendSpec
=============================================================================
