------------------------------ MODULE Catalogue ------------------------------
(* What the catalogue says: the metadata of releases, the works they are      *)
(* grouped in, mirroring, and the pages it is read on.  In these models they  *)
(* share no state, so the catalogue is their interleaving.                    *)
EXTENDS Metadata, Works, Mirror, Pages

catalogueVars == <<metadataVars, worksVars, mirrorVars, pagesVars>>

CatalogueInit == MetadataInit /\ WorksInit /\ MirrorInit /\ PagesInit

CatalogueNext ==
  \/ MetadataNext /\ UNCHANGED <<worksVars, mirrorVars, pagesVars>>
  \/ WorksNext /\ UNCHANGED <<metadataVars, mirrorVars, pagesVars>>
  \/ MirrorNext /\ UNCHANGED <<metadataVars, worksVars, pagesVars>>
  \/ PagesNext /\ UNCHANGED <<metadataVars, worksVars, mirrorVars>>

CatalogueSpec == CatalogueInit /\ [][CatalogueNext]_catalogueVars

(* ---- properties ---- *)

\* The variables of every part have their types.
CatalogueTypeOK == MetadataTypeOK /\ WorksTypeOK /\ MirrorTypeOK /\ PagesTypeOK

\* What readers and mirrors may rely on: no import brings back what was taken
\* down or mixes two chains, a walk through a listing shows what stayed listed
\* exactly once, and what is offered is what may be seen.
CatalogueKeepsFaith ==
  TakedownsSurviveImports /\ ChainsStayApart /\ WalksAreWhole /\ OffersAreCurrent

\* What grouping keeps: every release's work is there, and has members enough,
\* and only unlinking parts two releases of a work.
WorksAreWhole == [](WorksAreThere /\ NoLonelyWork) /\ OnlyUnlinkParts

\* What moderators decide outranks the rule, and a claim moves up only when it
\* changes.
DecisionsStand == HumansOutrankTheRule /\ RecencyMovesWithTheClaim
=============================================================================
