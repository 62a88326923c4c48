--------------------------- MODULE WalletSession ---------------------------
(* The session of the Electron wallet: creating, opening, restoring and     *)
(* switching wallets (electron/src/app.js) against the one wallet that      *)
(* wallet-rpc has open, the address the page loads for it, and the Nexus    *)
(* key that main.js binds to it in <name>.nexus.json.                       *)
(*                                                                          *)
(* Every handler of the page is cut at its awaits.  Requests wait on the    *)
(* wire until wallet-rpc (one thread, busy while it refreshes) or the main  *)
(* process serves them, in any order; replies reach the page in the order   *)
(* in which they were produced.  A request the page has given up may still  *)
(* be served.                                                               *)
EXTENDS Naturals, Sequences, FiniteSets, FiniteSetsExt

CONSTANTS
  Names,      \* wallet names the user types
  Addrs,      \* CryLo addresses: what a seed determines
  Files,      \* names of Nexus key files
  FileOf(_),  \* safeNexusFileName: the key file that a wallet name leads to
  None,       \* the empty string, a missing file
  MaxCalls,   \* bound on requests on the wire
  MaxKeys     \* bound on Nexus keys created

ASSUME SessionBounds == /\ MaxCalls \in Nat \ {0} /\ MaxKeys \in Nat \ {0}
                        /\ \A n \in Names : FileOf(n) \in Files
                        /\ None \notin Names \cup Addrs
                        /\ None \notin [crylo : Addrs, nexus : 1 .. MaxKeys]

VARIABLES
  screen,      \* "setup" or "main"
  canContinue, \* the setup screen shows a create form with its continue button
  started,     \* openMainScreen has run: its refresh chain may still load
  walletName, address, nexus,   \* State.walletName, .address, .nexusAddress
  wire,        \* wire[c]: the request in slot c
  inbox,       \* replies on their way to the page
  open,        \* m_wallet of wallet-rpc
  disk,        \* the wallet files: the address each name has
  keyFile,     \* the Nexus key files
  registered,  \* keys the bridge service has accepted
  orderly,     \* history: no timeout, no session change begun before the last
               \* one was done with
  inTurn       \* history: always orderly so far, and no wallet created, opened or
               \* restored while the address for a bind was still being fetched

state == <<walletName, address, nexus>>
view == <<screen, canContinue, started>>
store == <<open, disk, keyFile, registered>>
history == <<orderly, inTurn>>
vars == <<view, state, wire, inbox, store, history>>

Slots == 1 .. MaxCalls
Keys == 1 .. MaxKeys

SessionOps == {"closeToCreate", "create", "seed", "closeToOpen", "open", "restore", "closeToSwitch"}
AddressOps == {"address", "addressToLoad", "addressToBind"}
KeyOps == {"load", "bind"}

(* key is the key a bind is registering. *)
Req(op, n, a) == [op |-> op, name |-> n, addr |-> a, key |-> None, late |-> FALSE]
Free == Req("none", None, None)
(* val is what a reply carries: an address, or a Nexus key. *)
Reply(r, ok, val) == [op |-> r.op, name |-> r.name, addr |-> r.addr, ok |-> ok, val |-> val]

FreeSlots == {c \in Slots : wire[c] = Free}
Send(r) == /\ FreeSlots # {}
           /\ wire' = [wire EXCEPT ![Min(FreeSlots)] = r]

(* What the user starts finds room: one slot per request or awaited reply.  *)
Room == Cardinality(Slots \ FreeSlots) + Len(inbox) < MaxCalls

KeysOnDisk == {keyFile[f].nexus : f \in {g \in Files : keyFile[g] # None}}

(* A session change is under way on the page. *)
Changing == \/ \E c \in Slots : wire[c].op \in SessionOps /\ ~wire[c].late
            \/ \E i \in DOMAIN inbox : inbox[i].op \in SessionOps

(* createBoundNexusWallet waits for the address. *)
FetchingToBind == \/ \E c \in Slots : wire[c].op = "addressToBind"
                  \/ \E i \in DOMAIN inbox : inbox[i].op = "addressToBind"

Init ==
  /\ screen = "setup" /\ canContinue = FALSE /\ started = FALSE
  /\ walletName = None /\ address = None /\ nexus = None
  /\ wire = [c \in Slots |-> Free] /\ inbox = <<>>
  /\ open = None /\ disk = [n \in Names |-> None]
  /\ keyFile = [f \in Files |-> None] /\ registered = {}
  /\ orderly = TRUE /\ inTurn = TRUE

----------------------------------------------------------------------------
(* What the user and the page's timers start.                               *)

(* A handler of the setup form.  The Enter key reaches createWallet and     *)
(* openWallet whether or not their buttons are disabled or hidden: also     *)
(* while another handler runs, and from a create form that is done.         *)
SetupRequest(r) ==
  /\ Room
  /\ screen = "setup"
  /\ Send(r)
  /\ orderly' = (orderly /\ ~Changing /\ ~canContinue)
  /\ inTurn' = (inTurn /\ orderly' /\ ~FetchingToBind)
  /\ UNCHANGED <<view, state, inbox, store>>

CreateWallet(n) == SetupRequest(Req("closeToCreate", n, None))
OpenWallet(n) == disk[n] # None /\ SetupRequest(Req("closeToOpen", n, None))
RestoreWallet(n, a) == SetupRequest(Req("restore", n, a))

(* openMainScreen, from the continue button of the create form. *)
Continue ==
  /\ screen = "setup" /\ canContinue
  /\ screen' = "main" /\ started' = TRUE /\ canContinue' = FALSE
  /\ orderly' = (orderly /\ ~Changing)
  /\ inTurn' = (inTurn /\ orderly')
  /\ UNCHANGED <<state, wire, inbox, store>>

(* Back to the cards: the next create form hides the continue button. *)
Back ==
  /\ screen = "setup" /\ canContinue
  /\ canContinue' = FALSE
  /\ UNCHANGED <<screen, started, state, wire, inbox, store, history>>

SwitchWallet ==
  /\ Room
  /\ screen = "main"
  /\ Send(Req("closeToSwitch", None, None))
  /\ orderly' = (orderly /\ ~Changing)
  /\ inTurn' = (inTurn /\ orderly')
  /\ UNCHANGED <<view, state, inbox, store>>

(* loadAddress: the receive tab, and every refresh while it is shown; the   *)
(* refresh chain of openMainScreen outlives the screen.                     *)
LoadAddress ==
  /\ Room
  /\ started
  /\ Send(Req("address", None, None))
  /\ UNCHANGED <<view, state, inbox, store, history>>

(* loadSavedNexusLinkedAddress, from the Nexus tabs. *)
LoadSavedNexus ==
  /\ Room
  /\ screen = "main"
  /\ Send(IF address = None THEN Req("addressToLoad", None, None)
          ELSE Req("load", walletName, address))
  /\ UNCHANGED <<view, state, inbox, store, history>>

(* createBoundNexusWallet. *)
CreateBoundNexus ==
  /\ Room
  /\ screen = "main"
  /\ Send(IF address = None THEN Req("addressToBind", None, None)
          ELSE Req("bind", walletName, address))
  /\ UNCHANGED <<view, state, inbox, store, history>>

----------------------------------------------------------------------------
(* wallet-rpc serves a request.                                             *)

(* A reply is heard only by a page that still waits for it. *)
Answer(c, ok, val) ==
  /\ wire' = [wire EXCEPT ![c] = Free]
  /\ inbox' = IF wire[c].late THEN inbox ELSE Append(inbox, Reply(wire[c], ok, val))

(* on_create_wallet and on_restore_deterministic_wallet refuse a file that  *)
(* exists; a new wallet replaces the one that was open.                     *)
NewWallet(c, a) ==
  /\ wire[c].op \in {"create", "restore"}
  /\ disk[wire[c].name] = None
  /\ a \in IF wire[c].op = "restore" THEN {wire[c].addr} ELSE Addrs \ {disk[n] : n \in Names}
  /\ disk' = [disk EXCEPT ![wire[c].name] = a]
  /\ open' = wire[c].name
  /\ Answer(c, TRUE, None)

(* on_open_wallet; a wrong password is a refusal. *)
OpenServed(c) ==
  /\ wire[c].op = "open"
  /\ disk[wire[c].name] # None
  /\ open' = wire[c].name
  /\ Answer(c, TRUE, None)
  /\ UNCHANGED disk

(* on_close_wallet. *)
CloseServed(c) ==
  /\ wire[c].op \in {"closeToCreate", "closeToOpen", "closeToSwitch"}
  /\ open # None
  /\ open' = None
  /\ Answer(c, TRUE, None)
  /\ UNCHANGED disk

(* on_getaddress, and query_key for the seed of the wallet that is open. *)
ReadServed(c) ==
  /\ wire[c].op \in AddressOps \cup {"seed"}
  /\ open # None
  /\ Answer(c, TRUE, disk[open])
  /\ UNCHANGED <<open, disk>>

(* An error: no wallet is open, the file exists, the password is wrong, the *)
(* autosave of close_wallet or of restore fails.                            *)
Refused(c) ==
  /\ wire[c].op \notin KeyOps \cup {"none"}
  /\ wire[c].op \in AddressOps \cup {"seed", "closeToCreate", "closeToOpen"} => open = None
  /\ Answer(c, FALSE, None)
  /\ UNCHANGED <<open, disk>>

WalletRpc(c) ==
  /\ (\E a \in Addrs : NewWallet(c, a)) \/ OpenServed(c) \/ CloseServed(c) \/ ReadServed(c) \/ Refused(c)
  /\ UNCHANGED <<view, state, keyFile, registered, history>>

----------------------------------------------------------------------------
(* The main process serves a Nexus request.                                 *)

KeyOnDisk(n) == IF n = None THEN None ELSE keyFile[FileOf(n)]

(* nexus-wallet-load: a file bound to another address is as good as none.   *)
LoadServed(c) ==
  LET r == wire[c]
      data == KeyOnDisk(r.name) IN
  /\ r.op = "load"
  /\ Answer(c, TRUE, IF data # None /\ data.crylo = r.addr THEN data.nexus ELSE None)
  /\ UNCHANGED <<keyFile, registered>>

(* Variant: a key file is written whether or not there is one. *)
BindStartsAnew(c) ==
  LET r == wire[c]
      fresh == Keys \ (KeysOnDisk \cup registered) IN
  /\ r.op = "bind" /\ r.key = None /\ r.name # None /\ r.addr # None
  /\ fresh # {}
  /\ keyFile' = [keyFile EXCEPT ![FileOf(r.name)] = [crylo |-> r.addr, nexus |-> Min(fresh)]]
  /\ wire' = [wire EXCEPT ![c].key = Min(fresh)]
  /\ UNCHANGED <<inbox, registered>>

(* nexus-wallet-create, up to its registration: an existing file is used as *)
(* it is, whatever address it is bound to; a new one is written first.      *)
BindStarts(c) ==
  LET r == wire[c]
      data == KeyOnDisk(r.name)
      fresh == Keys \ (KeysOnDisk \cup registered) IN
  /\ r.op = "bind" /\ r.key = None /\ r.name # None /\ r.addr # None
  /\ IF data # None
     THEN /\ wire' = [wire EXCEPT ![c].key = data.nexus]
          /\ UNCHANGED keyFile
     ELSE /\ fresh # {}
          /\ keyFile' = [keyFile EXCEPT ![FileOf(r.name)] = [crylo |-> r.addr, nexus |-> Min(fresh)]]
          /\ wire' = [wire EXCEPT ![c].key = Min(fresh)]
  /\ UNCHANGED <<inbox, registered>>

(* registerBoundNexusWallet answers, or fails before or after the service   *)
(* has taken the key.                                                       *)
BindEnds(c, accepted, ok) ==
  /\ wire[c].op = "bind" /\ wire[c].key # None
  /\ ok => accepted
  /\ registered' = IF accepted THEN registered \cup {wire[c].key} ELSE registered
  /\ Answer(c, ok, IF ok THEN wire[c].key ELSE None)
  /\ UNCHANGED keyFile

(* No wallet is named: nexus-wallet-create throws. *)
BindRefused(c) ==
  /\ wire[c].op = "bind" /\ wire[c].key = None
  /\ wire[c].name = None \/ wire[c].addr = None
  /\ Answer(c, FALSE, None)
  /\ UNCHANGED <<keyFile, registered>>

MainProcess(c) ==
  /\ \/ LoadServed(c) \/ BindStarts(c) \/ BindRefused(c)
     \/ \E accepted, ok \in BOOLEAN : BindEnds(c, accepted, ok)
  /\ UNCHANGED <<view, state, open, disk, history>>

(* The timeout of walletRpc: the page hears an error, the request stays.    *)
TimeOut(c) ==
  /\ wire[c].op \in SessionOps \cup AddressOps /\ ~wire[c].late
  /\ inbox' = Append(inbox, Reply(wire[c], FALSE, None))
  /\ \E lost \in BOOLEAN :
       wire' = [wire EXCEPT ![c] = IF lost THEN Free ELSE [@ EXCEPT !.late = TRUE]]
  /\ orderly' = FALSE /\ inTurn' = FALSE
  /\ UNCHANGED <<view, state, store>>

----------------------------------------------------------------------------
(* The page handles the next reply.                                         *)

(* Variant: the address is not reset. *)
ForgetNexus == nexus' = None /\ UNCHANGED address

Forget == address' = None /\ nexus' = None

(* createWallet and openWallet ignore how the close went.                   *)
CloseDone(r) ==
  /\ r.op \in {"closeToCreate", "closeToOpen"}
  /\ Send(Req(IF r.op = "closeToCreate" THEN "create" ELSE "open", r.name, None))
  /\ UNCHANGED <<view, state>>

CreateDone(r) ==
  /\ r.op = "create"
  /\ IF r.ok THEN Send(Req("seed", r.name, None)) ELSE UNCHANGED wire
  /\ UNCHANGED <<view, state>>

(* The seed is shown and the state is set; refreshWalletList is not defined *)
(* anywhere, so the rest of createWallet does not run.                      *)
SeedDone(r) ==
  /\ r.op = "seed"
  /\ walletName' = r.name /\ Forget
  /\ canContinue' = TRUE
  /\ UNCHANGED <<screen, started, wire>>

(* Variant: the result of open_wallet is not looked at. *)
OpenDoneAnyway(r) ==
  /\ r.op = "open"
  /\ walletName' = r.name /\ Forget
  /\ screen' = "main" /\ started' = TRUE /\ canContinue' = FALSE
  /\ UNCHANGED wire

OpenDone(r) ==
  /\ r.op = "open"
  /\ IF r.ok
     THEN /\ walletName' = r.name /\ Forget
          /\ screen' = "main" /\ started' = TRUE /\ canContinue' = FALSE
     ELSE UNCHANGED <<state, view>>
  /\ UNCHANGED wire

(* restoreWallet ends like createWallet, before it reaches openMainScreen.  *)
RestoreDone(r) ==
  /\ r.op = "restore"
  /\ IF r.ok THEN walletName' = r.name /\ Forget ELSE UNCHANGED state
  /\ UNCHANGED <<view, wire>>

(* switchWallet goes on whatever close_wallet said, and keeps the Nexus     *)
(* address.                                                                 *)
SwitchDone(r) ==
  /\ r.op = "closeToSwitch"
  /\ walletName' = None /\ address' = None
  /\ screen' = "setup" /\ canContinue' = FALSE
  /\ UNCHANGED <<nexus, started, wire>>

(* loadAddress and ensureCryLoAddressLoaded keep the address and go on with *)
(* the Nexus request for the wallet the page names now.                     *)
AddressDone(r) ==
  /\ r.op \in AddressOps
  /\ IF r.ok
     THEN /\ address' = r.val
          /\ nexus' = IF r.op = "address" /\ address # r.val THEN None ELSE nexus
          /\ Send(Req(IF r.op = "addressToBind" THEN "bind" ELSE "load", walletName, r.val))
     ELSE /\ nexus' = IF r.op = "addressToLoad" THEN None ELSE nexus
          /\ UNCHANGED <<address, wire>>
  /\ UNCHANGED <<view, walletName>>

(* setNexusUiAddress: a failed bind changes nothing. *)
KeyDone(r) ==
  /\ r.op \in KeyOps
  /\ nexus' = IF r.op = "bind" /\ ~r.ok THEN nexus ELSE r.val
  /\ UNCHANGED <<view, walletName, address, wire>>

Resume ==
  /\ inbox # <<>>
  /\ LET r == Head(inbox) IN
       \/ CloseDone(r) \/ CreateDone(r) \/ SeedDone(r) \/ OpenDone(r) \/ RestoreDone(r)
       \/ SwitchDone(r) \/ AddressDone(r) \/ KeyDone(r)
  /\ inbox' = Tail(inbox)
  /\ UNCHANGED <<store, history>>

(* The application ends at any moment and starts again: what is on disk and *)
(* what the service has registered stay.                                    *)
Restart ==
  /\ screen' = "setup" /\ canContinue' = FALSE /\ started' = FALSE
  /\ walletName' = None /\ Forget
  /\ wire' = [c \in Slots |-> Free] /\ inbox' = <<>>
  /\ open' = None /\ orderly' = TRUE
  /\ UNCHANGED <<disk, keyFile, registered, inTurn>>

Next ==
  \/ \E n \in Names : CreateWallet(n) \/ OpenWallet(n)
  \/ \E n \in Names, a \in Addrs : RestoreWallet(n, a)
  \/ Continue \/ Back \/ SwitchWallet
  \/ LoadAddress \/ LoadSavedNexus \/ CreateBoundNexus
  \/ \E c \in Slots : WalletRpc(c) \/ MainProcess(c) \/ TimeOut(c)
  \/ Resume
  \/ Restart

Spec == Init /\ [][Next]_vars
----------------------------------------------------------------------------
(* Properties.                                                              *)

(* As long as requests are answered in time and the user lets one session   *)
(* change end, and leaves its form, before the next, the main screen works  *)
(* on the wallet it names at its top, whatever refreshes and Nexus requests *)
(* run meanwhile; and State.address, which receives payments, binds Nexus   *)
(* keys and is mined to, is the address of that wallet: the replies of      *)
(* loads started for an earlier wallet leave no trace.                      *)
SessionAgrees ==
  orderly /\ ~Changing /\ screen = "main" =>
    /\ open = walletName
    /\ address # None => address = disk[walletName]

(* No Nexus address is registered with the bridge or shown as a place to    *)
(* receive unless its private key is in a key file, through failed          *)
(* registrations, retries, crashes and requests of two wallets at once.     *)
KnownKeysOnDisk ==
  registered \cup ({nexus} \ {None}) \subseteq KeysOnDisk

(* "Create/load Nexus wallet bound to opened CryLo wallet address"          *)
(* (electron/main.js): nexus-wallet-create is asked with the address of the *)
(* wallet it is asked for, and answers with the key in that wallet's key    *)
(* file, bound to that wallet's address or, where safeNexusFileName turns   *)
(* another wallet's name into the same file name, to that one's, although   *)
(* it uses a file it finds without looking at its address.  This is so      *)
(* where requests were answered in time, session changes did not overlap    *)
(* and none began while the address for a bind was being fetched: such an   *)
(* address is sent on under the name the page has by then.                  *)
BoundAsAsked ==
  inTurn => \A i \in DOMAIN inbox :
    inbox[i].op = "bind" /\ inbox[i].ok =>
      /\ inbox[i].addr = disk[inbox[i].name]
      /\ \E n \in Names :
           /\ FileOf(n) = FileOf(inbox[i].name)
           /\ keyFile[FileOf(n)] = [crylo |-> disk[n], nexus |-> inbox[i].val]
============================================================================
