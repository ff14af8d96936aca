-------------------------------- MODULE Pages --------------------------------
(***************************************************************************)
(* Pages of the application that share no state: the console of Bots       *)
(* (BotsConsole), the chat (Chat), the projects and their sites            *)
(* (ProjectPages), the mobile app (Mobile), and the two pages that ask an  *)
(* injected wallet for money, the storefront (Storefront) and the wallet   *)
(* itself (Wallet).  A behaviour follows one of them, chosen at its start. *)
(***************************************************************************)
EXTENDS BotsConsole, Chat, ProjectPages, Mobile, Storefront, Wallet

VARIABLE page

pageVars == <<page, consoleVars, chatVars, projectVars, mobileVars, storeVars, walletVars>>

PagesInit ==
  /\ page \in {"bots", "chat", "projects", "mobile", "storefront", "wallet"}
  /\ ConsoleInit /\ ChatInit /\ ProjectInit /\ MobileInit /\ StoreInit /\ WalletInit
  /\ page # "bots" => selected = CHOOSE b \in Bot : TRUE

Console ==
  page = "bots" /\ ConsoleNext
  /\ UNCHANGED <<page, chatVars, projectVars, mobileVars, storeVars, walletVars>>
Talk ==
  page = "chat" /\ ChatNext
  /\ UNCHANGED <<page, consoleVars, projectVars, mobileVars, storeVars, walletVars>>
Projects ==
  page = "projects" /\ ProjectNext
  /\ UNCHANGED <<page, consoleVars, chatVars, mobileVars, storeVars, walletVars>>
Phone ==
  page = "mobile" /\ MobileNext
  /\ UNCHANGED <<page, consoleVars, chatVars, projectVars, storeVars, walletVars>>
Shop ==
  page = "storefront" /\ StoreNext
  /\ UNCHANGED <<page, consoleVars, chatVars, projectVars, mobileVars, walletVars>>
Purse ==
  page = "wallet" /\ WalletNext
  /\ UNCHANGED <<page, consoleVars, chatVars, projectVars, mobileVars, storeVars>>

PagesNext == Console \/ Talk \/ Projects \/ Phone \/ Shop \/ Purse

PagesSpec == PagesInit /\ [][PagesNext]_pageVars

\* The console is read and synchronized from its first moment, so its fairness
\* is asked of the console's behaviours alone; the other pages wait for nothing
\* before they are used.
PagesFairSpec ==
  /\ PagesSpec
  /\ \/ page = "bots" /\ ConsoleFairness
     \/ page # "bots" /\ ChatFairness /\ MobileFairness /\ StoreFairness /\ WalletFairness

\* Every run ends, and the console comes to rest on the newest of its thread.
ConsoleSettles == page = "bots" => RunsEnd /\ Settles

\* Whatever a page waits for ends: an answer, an effect, a payment, a ceremony.
PagesEnd == GenerationEnds /\ EffectsEnd /\ PaymentsSettle /\ CeremonyEnds
=============================================================================
