---------------------------- MODULE MCCatalogue ----------------------------
(* The catalogue and the texts themselves, on a small instance.  Parts that  *)
(* share no state need no interleaving, so each behaviour plays one of them. *)
EXTENDS Catalogue, Text, TLC

CONSTANTS t1, t2, a1, j1, j2, v1, v2,
          Parts    \* the parts that are played

VARIABLE part

partVars == <<catalogueVars, textVars, part>>

Interchangeable == Permutations({t1, t2}) \cup Permutations({j1, j2}) \cup Permutations({v1, v2})

\* A title and the one performer of each.
MCClaims == {[title |-> t, cast |-> {t}] : t \in {t1, t2}}
MCClashes == {<<1, 2>>, <<2, 1>>}

\* Two pairs, one pair and two single releases, or a triple.
MCGroupings ==
  {<<1, 1, 2, 2>>, <<1, 1, 0, 0>>, <<1, 1, 1, 0>>, <<0, 0, 0, 0>>}

\* The second release was downloaded most, the first lately.
MCRecent == <<2, 1, 0>>
MCTotal == <<2, 3, 0>>
MCOverlap == <<1, 1, 2>>

\* A file whose one cue says what follows: tags spliced of others, an arrow
\* pieced together between timestamps, lines that sanitising empties.
Headed(said) == <<"0:00", "-", "-", ">", "0:03", "nl">> \o said
Spliced ==
  {Headed(<<"<">> \o said) : said \in [1..5 -> {"<", ">", "s"}] \cup [1..4 -> {"<", ">", "i"}]
                              \cup [1..3 -> {"/", ">", "i"}]}
Arrows == {Headed(<<"0:01">> \o said \o <<"0:02">>) : said \in [1..4 -> {"-", "c", ">"}]}
Blanks == {Headed(<<"i", "nl">> \o said \o <<"nl", "i">>) : said \in [1..2 -> {"c", " ", "<", "s"}]}

\* Two cues in any order that overlap, touch or go backwards, and three of
\* which some are a machine's marker.
MCStamps == <<"0:00", "0:01", "0:02", "0:03", "0:04", "999:59">>
CueLines(start, end, said) == <<start, "-", "-", ">", end, "nl", said, "nl">>
Pairs ==
  {CueLines(a, b, "i") \o CueLines(c, d, "i") :
     a \in {"0:00", "0:02"}, b \in {MCStamps[k] : k \in 1..6}, c \in {"0:01", "0:02", "999:59"}, d \in {"0:00", "999:59"}}
Marked ==
  {CueLines("0:00", "0:02", said[1]) \o CueLines("0:02", "0:03", said[2])
     \o CueLines("0:03", "0:04", said[3]) : said \in [1..3 -> {"i", "m"}]}
\* Close to the cap: rendered it is over it, unless it loses its marker, or it
\* is too long as it comes.
Close ==
  {CueLines("0:00", "0:01", "i") \o CueLines("0:01", "0:02", "i") \o CueLines("0:02", "0:03", "i")
     \o CueLines("0:03", "0:04", said) \o rest : said \in {"i", "m"}, rest \in {<< >>, [k \in 1..9 |-> "c"]}}
MCFiles == {<<"i">>} \cup Spliced \cup Arrows \cup Blanks \cup Pairs \cup Marked \cup Close
MCOffsets == {-2, 1}

\* Two releases have a title, and one of them, or both, a pin.
MCHeading == <<"a", "a", "untitled">>
MCPins == {<<"a", "no pin", "no pin">>, <<"a", "a", "no pin">>}

PartInit ==
  /\ part \in Parts
  /\ heads \in {Ids, {1, 3}} /\ heading = MCHeading /\ pinName \in MCPins
  /\ part # "listing" => heads = Ids /\ pinned = {1}
  /\ CatalogueInit
  /\ part # "metadata" =>
       /\ group = [r \in Releases |-> 0]
       /\ proposals = {Row(1, a1, [title |-> t1, cast |-> {t1}], None, 0)}
  /\ trusted = {a1}
  /\ part # "works" => work = <<0, 0, 0, 0>>
  /\ part # "text" => file = <<"i">> /\ made = FALSE
  /\ TextInit
  /\ made => file \in Pairs \cup Marked \cup Close

\* Who pages through a listing shares nothing with other visitors.
Alone(v) == \A w \in Visitors \ {v} : view[w] = NoView

\* One change is enough beside a document that is built by two visitors.
OneMove == moves = 0 /\ ShelfNext

\* What happens at the origin while a dump lies written is like what happens
\* when the next has begun, and an import looks at takedowns of a release once;
\* the origin's release comes and goes during the first dump.
MirrorInTurn ==
  /\ dump.at = "written" => UNCHANGED <<releases, sources>>
  /\ import.at # "off" => UNCHANGED hidden
  /\ imports > 0 => UNCHANGED releases

PartNext ==
  /\ UNCHANGED part
  /\ \/ part = "metadata" /\ MetadataNext /\ UNCHANGED <<worksVars, mirrorVars, pagesVars, textVars>>
     \/ part = "works" /\ WorksNext /\ UNCHANGED <<metadataVars, mirrorVars, pagesVars, textVars>>
     \/ part = "mirror" /\ MirrorNext /\ MirrorInTurn /\ UNCHANGED <<metadataVars, worksVars, pagesVars, textVars>>
     \/ part = "text" /\ TextNext /\ UNCHANGED <<metadataVars, worksVars, mirrorVars, pagesVars>>
     \/ /\ \/ part = "listing" /\ (ShelfNext \/ \E v \in Visitors : Alone(v) /\ ListingNext(v))
           \/ part = "front" /\ (OneMove \/ PageTick \/ \E v \in Visitors : FrontNext(v))
           \/ part = "sitemap" /\ (OneMove \/ PageTick \/ \E v \in Visitors : SitemapNext(v))
        /\ UNCHANGED <<metadataVars, worksVars, mirrorVars, textVars>>

PartSpec == PartInit /\ [][PartNext]_partVars

\* What is stored reads back as it was stored, and comes back shifted for what
\* it is.
TextsHold == TextTypeOK /\ TextsSettle
=============================================================================
