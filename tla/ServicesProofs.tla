--------------------------- MODULE ServicesProofs ---------------------------
(***************************************************************************)
(* What is proved of Services: side by side, every part behaves as its own *)
(* specification says, so that what StorageProofs and ScreenProofs prove   *)
(* of each part holds of them all together.                                *)
(***************************************************************************)
EXTENDS Services, StorageProofs, ScreenProofs

LEMMA InitParts ==
  InitServices =>
    InitTui /\ InitBodies /\ InitAccountSync /\ InitAccounts /\ InitDatabase /\ InitLog
BY DEF InitServices

\* A step of one part leaves the others alone.
LEMMA StepOfPart ==
  ASSUME [NextServices]_servicesVars
  PROVE  /\ [NextTui]_tuiVars /\ [NextBodies]_bodyVars /\ [NextAccountSync]_syncVars
         /\ [NextAccounts]_accountVars /\ [NextDatabase]_databaseVars /\ [NextLog]_logVars
<1>1. CASE UNCHANGED servicesVars
  BY <1>1 DEF servicesVars
<1>2. CASE NextTui /\ UNCHANGED <<bodyVars, syncVars, accountVars, databaseVars, logVars>>
  BY <1>2
<1>3. CASE NextBodies /\ UNCHANGED <<tuiVars, syncVars, accountVars, databaseVars, logVars>>
  BY <1>3
<1>4. CASE NextAccountSync /\ UNCHANGED <<tuiVars, bodyVars, accountVars, databaseVars, logVars>>
  BY <1>4
<1>5. CASE NextAccounts /\ UNCHANGED <<tuiVars, bodyVars, syncVars, databaseVars, logVars>>
  BY <1>5
<1>6. CASE NextDatabase /\ UNCHANGED <<tuiVars, bodyVars, syncVars, accountVars, logVars>>
  BY <1>6
<1>7. CASE NextLog /\ UNCHANGED <<tuiVars, bodyVars, syncVars, accountVars, databaseVars>>
  BY <1>7
<1> QED BY <1>1, <1>2, <1>3, <1>4, <1>5, <1>6, <1>7 DEF NextServices, OnlyFolders

\* Side by side, every part behaves as when it is alone.
THEOREM PartsAreAsAlone ==
  ServicesSpec => TuiSpec /\ BodySpec /\ AccountSyncSpec /\ AccountsSpec /\ DatabaseSpec /\ LogSpec
BY InitParts, StepOfPart, PTL
   DEF ServicesSpec, TuiSpec, BodySpec, AccountSyncSpec, AccountsSpec, DatabaseSpec, LogSpec

\* Every part keeps its types, for all instances of each.
THEOREM ServicesTypeCorrect == ServicesSpec => []ServicesTypeOK
<1>1. ASSUME TuiTypeOK, BodiesTypeOK, AccountSyncTypeOK, AccountsTypeOK, DatabaseTypeOK, LogTypeOK
      PROVE  ServicesTypeOK
  BY <1>1 DEF ServicesTypeOK
<1> QED BY <1>1, PartsAreAsAlone, TuiTypeCorrect, BodiesTypeCorrect, AccountSyncTypeCorrect,
           AccountsTypeCorrect, DatabaseTypeCorrect, LogTypeCorrect, PTL

\* Every part keeps what it promises: keys name what is shown, bodies are their own,
\* folders are whole, settings and secrets as asked, drafts get the default, the log
\* has every record, and the database is the one Schema specifies.
THEOREM ServicesKeepTheirPromises ==
  ServicesSpec =>
    /\ [](KeysNameWhatIsShown /\ BodyShownIsItsOwn /\ FoldersWhole /\ SettingsAsAsked
            /\ SecretsAsAsked /\ DraftGetsTheDefault /\ PagesAreWhole)
    /\ StoreKeepsItsPromise
BY PartsAreAsAlone, KeysAreOfWhatIsShown, BodyShownIsTheOneChosen, FoldersAreWhole,
   SettingsStayAsAsked, SecretsStayAsAsked, DraftsGetTheDefault, PagesHaveEveryRecord,
   DatabaseKeepsItsPromise, PTL

=============================================================================
