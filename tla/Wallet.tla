------------------------------- MODULE Wallet -------------------------------
(***************************************************************************)
(* The wallet page of interaction.js: injected wallets that announce       *)
(* themselves, a transfer that one of them broadcasts and the server       *)
(* records, and the addition of a login passkey as an owner of the smart   *)
(* account, one ceremony at a time.                                        *)
(***************************************************************************)
EXTENDS Integers, FiniteSets

CONSTANTS
  Provider,     \* wallets that announce themselves (EIP-6963)
  Passkey,      \* owner candidates
  MaxSends,     \* bound: broadcasts of the transfer
  MaxWalletActs \* bound: clicks, loads and wallets that announce themselves

ASSUME WalletAssumption == MaxSends \in Nat /\ MaxWalletActs \in Nat

VARIABLES
  announced,    \* announcedWalletProviders
  chosen,       \* selectedWalletProviderId, NoProvider for the empty one
  reading,      \* balances are being read
  recorded,     \* on the server: the transfer is submitted
  operation,    \* on the server: the owner operation of each passkey
  loading,      \* GET /api/wallet under way: what the server answered
  walletActs,   \* clicks, loads and announcements so far
  walletState,  \* the last answer: what is recorded and operation
  rowOn,        \* the transfer's row on screen has an enabled button
  sending,      \* clicks on such buttons that are asking the wallet
  posting,      \* broadcasts whose hash is on its way to the server
  reloading,    \* recorded broadcasts that load the wallet again
  broadcasts, lost,   \* broadcasts of the transfer; hashes that were not recorded
  redrawn,      \* rows drawn with a button although one was clicked, at most MaxSends
  busy,         \* walletOwnerAuthorizationBusy
  ceremony,     \* what authorizeWalletOwner is doing for each passkey
  polling,      \* passkeys whose receipt button polls
  ownerRow      \* the button of each passkey's row

wallets   == <<announced, chosen, reading>>
server    == <<recorded, operation>>
transfer  == <<rowOn, sending, posting, reloading, broadcasts, lost, redrawn>>
owners    == <<busy, ceremony, polling, ownerRow>>
walletVars == <<wallets, server, loading, walletActs, walletState, transfer, owners>>

NoProvider == "none"
ASSUME NoProviderAssumption == NoProvider \notin Provider

WalletAct == walletActs < MaxWalletActs /\ walletActs' = walletActs + 1
Answer == [recorded |-> recorded, operation |-> operation]

\* renderWalletOwners: the button of a passkey's row.
OwnerRow(state, isBusy) ==
  [p \in Passkey |->
     CASE state.operation[p] = "confirmed" -> "owner"
       [] state.operation[p] = "submitted" -> "receipt"
       [] OTHER -> IF isBusy THEN "off" ELSE "add"]

Clicks == sending + posting + reloading

\* renderWallet: the owners and the transfer's row, from one answer.
Draw(state, isBusy) ==
  /\ ownerRow' = OwnerRow(state, isBusy)
  /\ rowOn' = ~state.recorded
  /\ redrawn' = IF ~state.recorded /\ Clicks + broadcasts > 0 /\ redrawn < MaxSends
                THEN redrawn + 1 ELSE redrawn

WalletInit ==
  /\ announced = {} /\ chosen = NoProvider /\ reading = FALSE
  /\ recorded = FALSE /\ operation = [p \in Passkey |-> "none"]
  /\ loading = {} /\ walletActs = 0
  /\ walletState = Answer
  /\ rowOn = TRUE /\ sending = 0 /\ posting = 0 /\ reloading = 0 /\ broadcasts = 0 /\ lost = 0 /\ redrawn = 0
  /\ busy = FALSE /\ ceremony = [p \in Passkey |-> "none"] /\ polling = {}
  /\ ownerRow = OwnerRow(walletState, FALSE)

(***************************************************************************)
(* Wallets and balances.                                                   *)
(***************************************************************************)

\* The first one announced is chosen; the balances are read again.
Announce(w) ==
  /\ WalletAct
  /\ w \notin announced
  /\ announced' = announced \cup {w}
  /\ chosen' = IF chosen = NoProvider THEN w ELSE chosen
  /\ reading' = TRUE
  /\ UNCHANGED <<server, loading, walletState, transfer, owners>>

ChooseProvider(w) ==
  /\ WalletAct
  /\ w \in announced \ {chosen}
  /\ chosen' = w /\ reading' = TRUE
  /\ UNCHANGED <<announced, server, loading, walletState, transfer, owners>>

\* refreshWalletBalances: the page is drawn from the last answer.
BalancesArrive ==
  /\ reading
  /\ reading' = FALSE
  /\ Draw(walletState, busy)
  /\ UNCHANGED <<announced, chosen, server, loading, walletActs, walletState, sending, posting,
                 reloading, broadcasts, lost, busy, ceremony, polling>>

\* loadWallet: the request, and its answer; answers may overtake each other.
Load ==
  /\ WalletAct
  /\ loading' = loading \cup {Answer}
  /\ UNCHANGED <<wallets, server, walletState, transfer, owners>>

LoadArrives ==
  \E a \in loading :
    /\ loading' = loading \ {a}
    /\ walletState' = a
    /\ Draw(a, busy)
    /\ UNCHANGED <<wallets, server, walletActs, sending, posting, reloading, broadcasts, lost, busy,
                   ceremony, polling>>

(***************************************************************************)
(* submitWalletTransfer.                                                   *)
(***************************************************************************)
\* Mutant: the button is not disabled.
SubmitClick_LeftOn ==
  /\ WalletAct
  /\ rowOn /\ sending + broadcasts < MaxSends
  /\ sending' = sending + 1
  /\ UNCHANGED <<wallets, server, loading, walletState, rowOn, posting,
                 reloading, broadcasts, lost, redrawn, owners>>

SubmitClick ==
  /\ WalletAct
  /\ rowOn /\ sending + broadcasts < MaxSends
  /\ rowOn' = FALSE
  /\ sending' = sending + 1
  /\ UNCHANGED <<wallets, server, loading, walletState, posting, reloading, broadcasts, lost, redrawn, owners>>

\* No wallet, another account, another chain, or the user refuses.
SendRefused ==
  /\ sending > 0
  /\ sending' = sending - 1 /\ rowOn' = TRUE
  /\ UNCHANGED <<wallets, server, loading, walletActs, walletState, posting, reloading, broadcasts, lost, redrawn, owners>>

SendBroadcast ==
  /\ sending > 0
  /\ sending' = sending - 1 /\ posting' = posting + 1 /\ broadcasts' = broadcasts + 1
  /\ UNCHANGED <<wallets, server, loading, walletActs, walletState, rowOn, reloading, lost, redrawn, owners>>

\* submit-transfer! records the first hash, and the wallet is loaded again.
SendRecorded ==
  /\ posting > 0 /\ ~recorded
  /\ posting' = posting - 1 /\ reloading' = reloading + 1 /\ recorded' = TRUE
  /\ UNCHANGED <<wallets, operation, loading, walletActs, walletState, rowOn, sending, broadcasts,
                 lost, redrawn, owners>>

SendReloaded ==
  /\ reloading > 0
  /\ reloading' = reloading - 1
  /\ walletState' = Answer
  /\ Draw(Answer, busy)
  /\ UNCHANGED <<wallets, server, loading, walletActs, sending, posting, broadcasts, lost,
                 busy, ceremony, polling>>

\* The hash is refused as the second one, or the request or its answer is lost.
SendUnrecorded ==
  /\ posting > 0
  /\ posting' = posting - 1 /\ lost' = lost + 1 /\ rowOn' = TRUE
  /\ recorded' \in {recorded, TRUE}
  /\ UNCHANGED <<wallets, operation, loading, walletActs, walletState, sending, reloading,
                 broadcasts, redrawn, owners>>

\* The hash is recorded, and the load that follows fails: the button is enabled.
SendReloadFails ==
  /\ reloading > 0
  /\ reloading' = reloading - 1 /\ lost' = lost + 1 /\ rowOn' = TRUE
  /\ UNCHANGED <<wallets, server, loading, walletActs, walletState, sending, posting,
                 broadcasts, redrawn, owners>>

(***************************************************************************)
(* authorizeWalletOwner and pollWalletOwnerReceipt.                        *)
(***************************************************************************)
Step(p, to) == ceremony' = [ceremony EXCEPT ![p] = to]

\* Every owner button is disabled, and the flag keeps later draws from enabling.
OwnerClick(p) ==
  /\ WalletAct
  /\ ownerRow[p] = "add" /\ ~busy
  /\ Step(p, "starting")
  /\ busy' = TRUE
  /\ ownerRow' = [q \in Passkey |-> IF ownerRow[q] = "owner" THEN "owner" ELSE "off"]
  /\ UNCHANGED <<wallets, server, loading, walletState, transfer, polling>>

\* start-owner-addition!, then the current owner's passkey is asked.
OwnerStarted(p) ==
  /\ ceremony[p] = "starting"
  /\ Step(p, "signing")
  /\ UNCHANGED <<wallets, server, loading, walletActs, walletState, transfer, busy, polling, ownerRow>>

\* finish-owner-addition!: the signed operation goes to the bundler.
OwnerSubmitted(p) ==
  /\ ceremony[p] = "signing"
  /\ Step(p, "polling")
  /\ operation' = [operation EXCEPT ![p] = "submitted"]
  /\ UNCHANGED <<wallets, recorded, loading, walletActs, walletState, transfer, busy, polling, ownerRow>>

\* One of the 30 polls finds the receipt; the wallet is loaded and drawn.
OwnerConfirmed(p) ==
  /\ ceremony[p] = "polling" /\ operation[p] = "submitted"
  /\ operation' = [operation EXCEPT ![p] = "confirmed"]
  /\ walletState' = [Answer EXCEPT !.operation[p] = "confirmed"]
  /\ Step(p, "none") /\ busy' = FALSE
  /\ Draw(walletState', FALSE)
  /\ UNCHANGED <<wallets, recorded, loading, walletActs, sending, posting, reloading, broadcasts, lost, polling>>

\* A refusal, no passkey, or 30 polls without a receipt: drawn from the old answer.
OwnerFails(p) ==
  /\ ceremony[p] \in {"starting", "signing", "polling"}
  /\ Step(p, "none") /\ busy' = FALSE
  /\ Draw(walletState, FALSE)
  /\ UNCHANGED <<wallets, server, loading, walletActs, walletState, sending, posting, reloading, broadcasts,
                 lost, polling>>

\* The receipt button polls on its own, also during a ceremony.
ReceiptClick(p) ==
  /\ WalletAct
  /\ ownerRow[p] = "receipt" /\ p \notin polling
  /\ polling' = polling \cup {p}
  /\ ownerRow' = [ownerRow EXCEPT ![p] = "off"]
  /\ UNCHANGED <<wallets, server, loading, walletState, transfer, busy, ceremony>>

\* Confirmed, or not an operation that waits any more, or 30 polls.
ReceiptArrives(p) ==
  /\ p \in polling
  /\ polling' = polling \ {p}
  /\ IF operation[p] = "submitted"
     THEN /\ operation' = [operation EXCEPT ![p] = "confirmed"]
          /\ walletState' = [Answer EXCEPT !.operation[p] = "confirmed"]
          /\ Draw(walletState', busy)
     ELSE UNCHANGED <<operation, walletState, rowOn, redrawn, ownerRow>>
  /\ UNCHANGED <<wallets, recorded, loading, walletActs, sending, posting, reloading, broadcasts, lost,
                 busy, ceremony>>

WalletNext ==
  \/ \E w \in Provider : Announce(w) \/ ChooseProvider(w)
  \/ BalancesArrive \/ Load \/ LoadArrives
  \/ SubmitClick \/ SendRefused \/ SendBroadcast \/ SendRecorded \/ SendReloaded
  \/ SendUnrecorded \/ SendReloadFails
  \/ \E p \in Passkey : OwnerClick(p) \/ OwnerStarted(p) \/ OwnerSubmitted(p)
                          \/ OwnerConfirmed(p) \/ OwnerFails(p)
  \/ \E p \in Passkey : ReceiptClick(p) \/ ReceiptArrives(p)

(***************************************************************************)
(* Properties.                                                             *)
(***************************************************************************)
\* Types and bounds; once a wallet has announced itself one is chosen.
WalletTypeOK ==
  /\ announced \subseteq Provider /\ reading \in BOOLEAN
  /\ chosen \in announced \cup {NoProvider} /\ (chosen = NoProvider => announced = {})
  /\ recorded \in BOOLEAN /\ walletState.recorded \in BOOLEAN
  /\ operation \in [Passkey -> {"none", "submitted", "confirmed"}]
  /\ rowOn \in BOOLEAN /\ walletActs \in 0..MaxWalletActs
  /\ sending + posting + reloading \in 0..MaxSends /\ redrawn \in 0..MaxSends /\ broadcasts \in 0..MaxSends
  /\ busy \in BOOLEAN /\ polling \subseteq Passkey
  /\ ceremony \in [Passkey -> {"none", "starting", "signing", "polling"}]
  /\ ownerRow \in [Passkey -> {"add", "off", "receipt", "owner"}]

\* One owner is added at a time although every answer and every balance redraws
\* the list with new buttons while a ceremony is under way: the nonce one
\* ceremony has signed for is not used by another.
OneCeremony ==
  /\ Cardinality({p \in Passkey : ceremony[p] # "none"}) <= 1
  /\ busy <=> \E p \in Passkey : ceremony[p] # "none"

\* The transfer is broadcast a second time only when the request that records
\* a hash or the load after it failed, or when the page was drawn meanwhile from an
\* answer that does not know of it: a button on screen from click to answer sends once.
SentAgainOnlyAfterLoss ==
  broadcasts <= 1 + lost + redrawn

\* An owner ceremony ends, and ends the state that keeps the other buttons off.
CeremonyEnds == busy ~> ~busy

\* Requests end; the passkey prompt has a time limit.
WalletFairness ==
  \A p \in Passkey : WF_walletVars(OwnerStarted(p) \/ OwnerSubmitted(p) \/ OwnerConfirmed(p)
                                     \/ OwnerFails(p))

\* One ceremony at a time, and no transfer twice but after a loss.
WalletInv == WalletTypeOK /\ OneCeremony /\ SentAgainOnlyAfterLoss
=============================================================================
