-------------------------- MODULE BackendLifecycle --------------------------
(* The processes behind the Electron wallet (electron/main.js): startBackend *)
(* waits for a daemon that already runs, starts wallet-rpc and waits for it; *)
(* closing the window stops what was started and quits; Quit in the menu     *)
(* ends the application without stopping anything.                           *)
(*                                                                           *)
(* startBackend runs once per window and is cut at its awaits, and so is the *)
(* handler of window-all-closed.  Wallet-rpc processes come and go on their  *)
(* own: one that finds the port taken ends, and any may crash.  A process    *)
(* that outlives the application stays on the machine for the next launch.   *)
EXTENDS Naturals, FiniteSets, FiniteSetsExt

CONSTANTS
  Procs,        \* wallet-rpc processes that are ever spawned, numbered from 1
  MaxTries,     \* attempts of waitForRpc that fit into maxMs
  MaxLaunches,  \* bound on launches of the application
  NoProc        \* null

ASSUME BackendBounds ==
  Procs \subseteq Nat /\ MaxTries \in Nat /\ MaxLaunches \in Nat /\ NoProc \notin Procs

VARIABLES
  launch,       \* launches so far
  window,       \* mainWindow: none, loading, or shown
  status,       \* the last startup-status the window got
  boot,         \* where startBackend stands
  tries,        \* failed attempts of the current waitForRpc
  shuttingDown,
  closing,      \* where the handler of window-all-closed stands: quit when it
                \* has run, menu when the application ended without it
  walletProc,   \* the process walletProc refers to
  procs,        \* procs[p]: a wallet-rpc process
  ended         \* history: startBackend was over when the window closed

backendVars == <<launch, window, status, boot, tries, shuttingDown, closing,
                 walletProc, procs, ended>>

Unused == [state |-> "unused", launch |-> 0]
Living == {"started", "serving", "stopping"}
Started(p) == procs[p].state \in Living
Serving == {p \in Procs : procs[p].state = "serving"}
HoldsPort == {p \in Procs : procs[p].state \in {"serving", "stopping"}}
Over == {"quit", "menu"}
On == launch > 0 /\ closing \notin Over

BackendInit ==
  /\ launch = 0 /\ window = "none" /\ status = "none"
  /\ boot = "none" /\ tries = 0
  /\ shuttingDown = FALSE /\ closing = "quit"
  /\ walletProc = NoProc /\ procs = [p \in Procs |-> Unused]
  /\ ended = FALSE

----------------------------------------------------------------------------
(* Starting.                                                                *)

(* The application starts with its module variables as declared. *)
Launch ==
  /\ closing \in Over /\ launch < MaxLaunches
  /\ launch' = launch + 1
  /\ window' = "loading" /\ status' = "none" /\ boot' = "none" /\ tries' = 0
  /\ shuttingDown' = FALSE /\ closing' = "none" /\ walletProc' = NoProc
  /\ ended' = FALSE
  /\ UNCHANGED procs

(* activate with no window left, also while the application shuts down. *)
Activate ==
  /\ On /\ window = "none"
  /\ window' = "loading" /\ status' = "none"
  /\ UNCHANGED <<launch, boot, tries, shuttingDown, closing, walletProc, procs, ended>>

(* sendStatus reaches a window that is there. *)
Tell(s) == status' = IF window = "none" THEN status ELSE s

(* attempt() of waitForRpc: nothing is asked once shuttingDown is set. *)
Attempt(ask, told) ==
  IF shuttingDown
  THEN boot' = "none" /\ Tell("error")
  ELSE boot' = ask /\ Tell(told)

(* ready-to-show: startBackend up to its first request.  The startup of a   *)
(* window that activate opened during a shutdown ends here.                 *)
ReadyToShow ==
  /\ On /\ window = "loading"
  /\ window' = "shown"
  /\ IF shuttingDown
     THEN status' = "error" /\ UNCHANGED <<boot, tries>>
     ELSE boot' = "askDaemon" /\ tries' = 0 /\ status' = "starting"
  /\ UNCHANGED <<launch, shuttingDown, closing, walletProc, procs, ended>>

(* The daemon answered get_info: wallet-rpc is spawned, whatever has        *)
(* happened while the request was under way, and asked for its languages.   *)
DaemonAnswers ==
  /\ On /\ boot = "askDaemon"
  /\ tries' = 0
  /\ \/ \E p \in Procs :
          /\ procs[p] = Unused
          /\ \A q \in Procs : procs[q] = Unused => p <= q
          /\ procs' = [procs EXCEPT ![p] = [state |-> "started", launch |-> launch]]
          /\ walletProc' = p
          /\ Attempt("askWallet", "starting")
     \/ (* the binary is missing *)
        /\ boot' = "none" /\ walletProc' = NoProc /\ Tell("error")
        /\ UNCHANGED procs
  /\ UNCHANGED <<launch, window, shuttingDown, closing, ended>>

(* Whichever process holds the port answers. *)
WalletAnswers ==
  /\ On /\ boot = "askWallet" /\ Serving # {}
  /\ boot' = "none" /\ Tell("ready")
  /\ UNCHANGED <<launch, window, tries, shuttingDown, closing, walletProc, procs, ended>>

Sleep == [askDaemon |-> "sleepDaemon", askWallet |-> "sleepWallet"]
Ask == [sleepDaemon |-> "askDaemon", sleepWallet |-> "askWallet"]

(* The connection is refused, breaks, or times out. *)
AskFails ==
  /\ On /\ boot \in DOMAIN Sleep
  /\ IF tries = MaxTries
     THEN boot' = "none" /\ Tell("error") /\ UNCHANGED tries
     ELSE boot' = Sleep[boot] /\ tries' = tries + 1 /\ UNCHANGED status
  /\ UNCHANGED <<launch, window, shuttingDown, closing, walletProc, procs, ended>>

(* Variant: every attempt starts the clock again. *)
SleepOverAnew ==
  /\ On /\ boot \in DOMAIN Ask
  /\ Attempt(Ask[boot], "starting")
  /\ tries' = 0
  /\ UNCHANGED <<launch, window, shuttingDown, closing, walletProc, procs, ended>>

SleepOver ==
  /\ On /\ boot \in DOMAIN Ask
  /\ Attempt(Ask[boot], status)
  /\ UNCHANGED <<launch, window, tries, shuttingDown, closing, walletProc, procs, ended>>

----------------------------------------------------------------------------
(* The processes.                                                           *)

(* A started process gets the port, or finds it taken and ends. *)
Bind(p) ==
  /\ procs[p].state = "started"
  /\ procs' = [procs EXCEPT ![p].state = IF HoldsPort = {} THEN "serving" ELSE "exited"]
  /\ UNCHANGED <<launch, window, status, boot, tries, shuttingDown, closing, walletProc, ended>>

(* It ends, on SIGTERM or by itself; its exit event resumes killProc. *)
Exit(p) ==
  /\ Started(p)
  /\ procs' = [procs EXCEPT ![p].state = "exited"]
  /\ closing' = IF closing = "wallet" /\ p = walletProc THEN "daemon" ELSE closing
  /\ UNCHANGED <<launch, window, status, boot, tries, shuttingDown, walletProc, ended>>

----------------------------------------------------------------------------
(* Stopping.                                                                *)

AliveWallet == walletProc # NoProc /\ Started(walletProc)

(* closed and window-all-closed: there is no miner process, and killProc    *)
(* returns at once for a wallet-rpc that is not there or has ended.  The    *)
(* handler of a window closed during the shutdown only signals again: the   *)
(* first one quits before it gets further.                                  *)
CloseWindow ==
  /\ On /\ window # "none"
  /\ window' = "none" /\ status' = "none" /\ shuttingDown' = TRUE
  /\ ended' = IF closing = "none" THEN boot = "none" ELSE ended
  /\ closing' = IF closing # "none" THEN closing ELSE IF AliveWallet THEN "wallet" ELSE "daemon"
  /\ procs' = IF AliveWallet THEN [procs EXCEPT ![walletProc].state = "stopping"] ELSE procs
  /\ UNCHANGED <<launch, boot, tries, walletProc>>

(* Variant: the promise is resolved by the exit event only. *)
ForceKillByExit ==
  /\ On /\ closing = "wallet" /\ ~Started(walletProc)
  /\ closing' = "daemon"
  /\ UNCHANGED <<launch, window, status, boot, tries, shuttingDown, walletProc, procs, ended>>

(* Variant: after five seconds the wait is over and nothing is killed. *)
ForceKillNothing ==
  /\ On /\ closing = "wallet"
  /\ closing' = "daemon"
  /\ UNCHANGED <<launch, window, status, boot, tries, shuttingDown, walletProc, procs, ended>>

(* Five seconds after SIGTERM. *)
ForceKill ==
  /\ On /\ closing = "wallet"
  /\ procs' = [procs EXCEPT ![walletProc].state = "exited"]
  /\ closing' = "daemon"
  /\ UNCHANGED <<launch, window, status, boot, tries, shuttingDown, walletProc, ended>>

(* The object that stands for the daemon has no exit event, so killProc     *)
(* waits its five seconds; then app.quit ends the process.                  *)
Quit ==
  /\ On /\ closing = "daemon"
  /\ closing' = "quit" /\ window' = "none" /\ status' = "none" /\ boot' = "none"
  /\ UNCHANGED <<launch, tries, shuttingDown, walletProc, procs, ended>>

(* Quit in the application menu: Electron closes the windows and ends the   *)
(* process, and emits no window-all-closed, so killProc is not called.      *)
MenuQuit ==
  /\ On
  /\ closing' = "menu" /\ window' = "none" /\ status' = "none" /\ boot' = "none"
  /\ UNCHANGED <<launch, tries, shuttingDown, walletProc, procs, ended>>

BackendNext ==
  \/ Launch \/ Activate \/ ReadyToShow
  \/ DaemonAnswers \/ WalletAnswers \/ AskFails \/ SleepOver
  \/ \E p \in Procs : Bind(p) \/ Exit(p)
  \/ CloseWindow \/ ForceKill \/ Quit \/ MenuQuit

(* Timers fire and a request ends within its ten seconds.  Nothing is       *)
(* assumed of the user, the daemon and the processes.                       *)
BackendFairness == WF_backendVars(AskFails) /\ WF_backendVars(SleepOver) /\ WF_backendVars(ForceKill) /\ WF_backendVars(Quit)

BackendSpec == BackendInit /\ [][BackendNext]_backendVars
BackendFairSpec == BackendSpec /\ BackendFairness

----------------------------------------------------------------------------
(* Properties.                                                              *)

Leftover == {p \in Procs : Started(p) /\ procs[p].launch = launch}
Quitted == closing \in Over /\ launch > 0

(* A launch leaves at most one wallet-rpc running when it has quit, the one *)
(* walletProc refers to.  When it quit because its window was closed after  *)
(* startBackend had come to its end, with success, with an error or after a *)
(* timeout, it leaves none, although a process may ignore SIGTERM, may      *)
(* still be starting, and a new window may open meanwhile.  (Closed while   *)
(* get_info is under way, the application leaves the process startBackend   *)
(* then spawns; quit from its menu, it leaves the one that runs.)           *)
EndedStopsWalletRpc ==
  Quitted => /\ Leftover \subseteq {walletProc}
             /\ ended /\ closing = "quit" => Leftover = {}

(* startBackend comes to an end: ready, an error, or the application quits. *)
StartupEnds == boot # "none" ~> boot = "none"

(* Closing the window ends the application, whatever wallet-rpc does. *)
CloseQuits == shuttingDown ~> closing \in Over
============================================================================
