------------------------------ MODULE PageProofs ------------------------------
(***************************************************************************)
(* What MCPages checks of contexts, navigations, downloads, waits and      *)
(* routes, proved for every value of its constants from the invariants of  *)
(* PagePartsProofs.                                                        *)
(***************************************************************************)
EXTENDS MCPages, PagePartsProofs

(* A component that moves has its invariant.                               *)
PagesInvariant ==
  /\ moving = "contexts" => ContextInvariant
  /\ moving = "navigation" => NavInvariant
  /\ moving = "download" => DownloadInvariant
  /\ moving = "waits" => WaitInvariant
  /\ moving = "netwaits" => NetInvariant
  /\ moving = "configuration" => ConfigInvariant
  /\ moving = "auxiliary" => AuxInvariant

(* At first the component that moves is in its own initial state.          *)
LEMMA PagesInit == Init => PagesInvariant
BY ContextInit, NavInit, DownloadInit, WaitStarts, NetStarts, ConfigStarts, AuxStarts
   DEF Init, PagesInvariant

(* A step is one of the component that moves, which goes on moving.        *)
LEMMA PagesStep ==
  [Next]_everything
    => /\ UNCHANGED moving
       /\ moving = "contexts" => [Contexts!Next]_(Contexts!contextVars)
       /\ moving = "navigation" => [Navigations!Next]_(Navigations!navigationVars)
       /\ moving = "download" => [Download!Next]_(Download!downloadVars)
       /\ moving = "waits" => [Wait!Next]_(Wait!waitVars)
       /\ moving = "netwaits" => [NetWait!Next]_(NetWait!waitVars)
       /\ moving = "configuration" => [Routes!RouteNext]_(Routes!routeVars)
       /\ moving = "auxiliary" => [Routes!AuxiliaryNext]_(Routes!auVars)
<1> SUFFICES ASSUME [Next]_everything
             PROVE  /\ UNCHANGED moving
                    /\ moving = "contexts" => [Contexts!Next]_(Contexts!contextVars)
                    /\ moving = "navigation" => [Navigations!Next]_(Navigations!navigationVars)
                    /\ moving = "download" => [Download!Next]_(Download!downloadVars)
                    /\ moving = "waits" => [Wait!Next]_(Wait!waitVars)
                    /\ moving = "netwaits" => [NetWait!Next]_(NetWait!waitVars)
                    /\ moving = "configuration" => [Routes!RouteNext]_(Routes!routeVars)
                    /\ moving = "auxiliary" => [Routes!AuxiliaryNext]_(Routes!auVars)
  BY SMTT(60)
<1>1. CASE Next
  BY <1>1 DEF Next, StillBut
<1>2. CASE UNCHANGED everything
  <2>1. UNCHANGED <<moving, theContexts, theNavigations, theDownload, theWait, theNetWait,
                  theConfiguration, theAuxiliary>>
    BY <1>2 DEF everything
  <2>2. UNCHANGED Contexts!contextVars
    BY <2>1 DEF theContexts, Contexts!contextVars
  <2>3. UNCHANGED Navigations!navigationVars
    BY <2>1 DEF theNavigations, Navigations!navigationVars, Navigations!chromeVars,
                Navigations!storeVars
  <2>4. UNCHANGED Download!downloadVars
    BY <2>1 DEF theDownload, Download!downloadVars, Download!managerVars,
                Download!callerVars, Download!chromeDownloads
  <2>5. UNCHANGED Wait!waitVars
    BY <2>1 DEF theWait, Wait!waitVars
  <2>6. UNCHANGED NetWait!waitVars
    BY <2>1 DEF theNetWait, NetWait!waitVars, NetWait!browser, NetWait!reading, NetWait!idling
  <2>7. UNCHANGED Routes!routeVars
    BY <2>1 DEF theConfiguration, Routes!routeVars
  <2>8. UNCHANGED Routes!auVars
    BY <2>1 DEF theAuxiliary, Routes!auVars, Routes!given
  <2> QED BY <2>1, <2>2, <2>3, <2>4, <2>5, <2>6, <2>7, <2>8
<1> QED BY <1>1, <1>2

(* The invariants hold in every reachable state.                           *)
LEMMA PagesAlways == Spec => []PagesInvariant
<1>1. PagesInvariant /\ [Next]_everything => PagesInvariant'
  BY PagesStep, ContextNext, NavNext, DownloadNext, WaitNext, NetNext, ConfigNext, AuxNext
     DEF PagesInvariant
<1> QED BY <1>1, PagesInit, PTL DEF Spec

-----------------------------------------------------------------------------
(* An open BrowserContext has an owner that disposes of it or was named to *)
(* someone, a closed runtime leaves none open that was not named, and a    *)
(* session in use has its context with every permission asked for          *)
(* (isolated_session).                                                     *)
THEOREM ContextsHaveOwners == Spec => []ContextsAreOwned
<1>1. ContextInvariant => Contexts!LeftOpenIsTold
  BY DEF ContextInvariant, ContextTypes, ContextsOwned, ClosesInOrder, Created, Cared,
         Contexts!LeftOpenIsTold
<1>2. ContextInvariant => Contexts!OpenIsOwned
  BY SMTT(60) DEF ContextInvariant, ContextTypes, ContextsOwned, Created, Cared, Contexts!OpenIsOwned
<1>3. ContextInvariant => Contexts!SessionIsWhole
  BY DEF ContextInvariant, ContextTypes, ContextsOwned, Created, Cared, Granting,
         Contexts!SessionIsWhole
<1>4. PagesInvariant => ContextsAreOwned
  BY <1>1, <1>2, <1>3 DEF PagesInvariant, ContextsAreOwned, Contexts!ContextsAreOwned
<1> QED BY <1>4, PagesAlways, PTL

(* A navigation that returns its document returns one that has loaded, its *)
(* own if it named it, a page that was created is known to its frame store,*)
(* and an error that says "not started" is true (navigation.rs).           *)
THEOREM NavigationsTellTheTruth == Spec => []NavigationsAreHonest
<1>1. NavInvariant => Navigations!NavigationsAreHonest
  BY DEF NavInvariant, AllFine, Fine, Navigations!NavigationsAreHonest,
         Navigations!ReportsItsDocument, Navigations!CreatedPageIsKnown,
         Navigations!NotStartedIsHonest, Navigations!In
<1>2. PagesInvariant => NavigationsAreHonest
  BY <1>1 DEF PagesInvariant, NavigationsAreHonest
<1> QED BY <1>2, PagesAlways, PTL

(* Whoever waits for a download learns its one final status, and the       *)
(* directory of an isolated session is there until everybody has copied    *)
(* the file from it (download.rs).                                         *)
THEOREM DownloadsSettle == Spec => []DownloadsAreSettled
<1>1. DownloadInvariant => Download!OneOutcome
  BY DEF DownloadInvariant, Learned, Download!OneOutcome
<1>2. DownloadInvariant => Download!DirectoryOutlivesSaves
  BY DEF DownloadInvariant, ManagerHolds, Learned, Relied, Download!Admitted,
         Download!DirectoryOutlivesSaves
<1>3. PagesInvariant => DownloadsAreSettled
  BY <1>1, <1>2 DEF PagesInvariant, DownloadsAreSettled, Download!DownloadsAreSettled
<1> QED BY <1>3, PagesAlways, PTL

(* A wait ends well only when its condition was met in its time, a page    *)
(* that is called stable was quiet all that time, a network wait that      *)
(* expires has missed nothing it was sent, and no wait leaves an observer, *)
(* a handle or a guard behind (wait.rs, network.rs).                       *)
THEOREM WaitsEndSoundly == Spec => []PagesWaitSoundly
<1>1. PagesInvariant => PagesWaitSoundly
  BY WaitIsSound, NetIsSound DEF PagesInvariant, PagesWaitSoundly
<1> QED BY <1>1, PagesAlways, PTL

(* A route that is in use runs with exactly its configuration and one that *)
(* was cleaned up keeps none of it; a worker belongs to a route only while *)
(* it is recorded, is kept only when it was configured, waits for nobody   *)
(* without an error, and is forgotten by a closed page (route.rs, frame.rs)*)
THEOREM RoutesConfigured == Spec => []RoutesAreConfigured
<1>1. PagesInvariant => RoutesAreConfigured
  BY ConfigIsExact, AuxIsSound DEF PagesInvariant, RoutesAreConfigured
<1> QED BY <1>1, PagesAlways, PTL
===============================================================================
