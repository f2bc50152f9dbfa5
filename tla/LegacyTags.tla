------------------------------ MODULE LegacyTags ------------------------------
(***************************************************************************)
(* The tags the legacy bridge exposes, and where, winxp/                    *)
(* opcda2ua_legacy.py: which of the tags a server lists it keeps, and the   *)
(* folder and name a tag gets.                                              *)
(*                                                                         *)
(* A tag is "branch::name.property".  Its name is the sequence of the parts *)
(* between underscores; branch and property are "" when the tag has none.   *)
(***************************************************************************)
EXTENDS Naturals, Sequences, SequencesExt

CONSTANTS
    Mode,           \* "none", "azucarlito" or "ifix": --azucarlito, --ifix
    NoProperties    \* --no-properties

ASSUME ModeAssumption == Mode \in {"none", "azucarlito", "ifix"} /\ NoProperties \in BOOLEAN

\* The tag without its property.
Base(t) == [t EXCEPT !.prop = ""]

\* What the sequence of parts names, with no branch.
Leaf(parts) == [branch |-> "", name |-> parts, prop |-> ""]

\* No folder: the node is in the folder of the bridge.
NoGroup == Leaf(<<>>)

\* Does the name end in "_" and these parts?
EndsIn(t, parts) == Len(t.name) > Len(parts) /\ IsSuffix(parts, t.name)

\* X_I is only there to describe X.
IsDescription(t) == EndsIn(t, <<"I">>)

\* Is t's name p's, or p's and more parts?
StartsWith(t, p) == t.branch = p.branch /\ IsPrefix(p.name, t.name)

-----------------------------------------------------------------------------
(* Filters.                                                                 *)

\* Tags of the server itself.
IsSystem(t) ==
    \/ "@" \in ToSet(t.name)
    \/ t.branch = "" /\ Head(t.name) = "#"

\* One of the tags that differ in the branch only: the one without, if any.
_deduplicate_tags(tags) ==
    {kept \in SUBSET tags :
       /\ \A t \in kept : t.branch # "" => [t EXCEPT !.branch = ""] \notin tags
       /\ \A t \in tags : \E k \in kept : k.name = t.name /\ k.prop = t.prop
       /\ \A t, k \in kept : k.name = t.name /\ k.prop = t.prop => k = t}

\* The X with an X.medida.
Measured(tags) == {Base(t) : t \in {u \in tags : u.prop = "medida"}}

\* The X with an X.velocidad, and what is kept of them.
Driven(tags) == {Base(t) : t \in {u \in tags : u.prop = "velocidad"}}

_VELOCIDAD_PROPS == {"velocidad", "horasMarcha", "alarmas", "velocidadOp", "velocidadProg"}

Standalone(tags) == {t \in tags : t.prop = ""}

\* X_Ir, X_P, ... make X an energy meter.
_ENERGY_TRIGGERS ==
    {<<"Ir">>, <<"Is">>, <<"It">>, <<"I", "R">>, <<"I", "S">>, <<"I", "T">>,
     <<"Urs">>, <<"Ust">>, <<"Utr">>, <<"U", "RS">>, <<"U", "ST">>, <<"U", "TR">>,
     <<"P">>, <<"Q">>}

\* The names that may be of a meter.
Names(tags) == {b \in Measured(tags) \cup Standalone(tags) : ~ IsDescription(b)}

EnergyPrefixes(tags) ==
    {[m[1] EXCEPT !.name = SubSeq(@, 1, Len(@) - Len(m[2]))] :
       m \in {n \in Names(tags) \X _ENERGY_TRIGGERS : EndsIn(n[1], n[2])}}

\* The meters a name may belong to.
MetersOf(b, tags) == {p \in EnergyPrefixes(tags) : StartsWith(b, p) /\ b # p}

\* The maps from a name to its meter.  Of several meters, one: the code takes
\* the first that a set of strings yields.
_energy_bases(tags) ==
    LET grouped == {b \in Names(tags) : MetersOf(b, tags) # {}}
    IN  {f \in [grouped -> EnergyPrefixes(tags)] : \A b \in grouped : f[b] \in MetersOf(b, tags)}

\* Of what is measured or driven, the value, or the values of a drive.  A tag of
\* its own unless it belongs to one of those; a tag of a meter, which the map of
\* the moment decides.
_filter_azucarlito(tags, energy) ==
    LET occupied == Measured(tags) \cup Driven(tags) \cup EnergyPrefixes(tags)
        keeps(t) ==
          /\ ~ IsDescription(Base(t))
          /\ \/ t.prop = "" /\ t \in DOMAIN energy
             \/ t.prop = "" /\ \A o \in occupied : ~ StartsWith(t, o)
             \/ Base(t) \in Measured(tags) /\ t.prop = "medida"
             \/ /\ Base(t) \in Driven(tags) \ Measured(tags)
                /\ t.prop \in _VELOCIDAD_PROPS
    IN  {t \in tags : keeps(t)}

_filter_ifix(tags) == {t \in tags : t.prop \in {"F_CV", "A_CV"}}

\* What is left of a listing before the filter of the mode.
Candidates(tags) == _deduplicate_tags({t \in tags : ~ IsSystem(t)})

\* The filter of the mode, with the energy map of the moment.
_filter_tags(candidates, energy) ==
    CASE Mode = "azucarlito" -> _filter_azucarlito(candidates, energy)
      [] Mode = "ifix"       -> _filter_ifix(candidates)
      [] OTHER               -> IF NoProperties THEN Standalone(candidates) ELSE candidates

\* The results of a listing, nobody else at the map.
Filtered(tags) ==
    UNION {{_filter_tags(c, f) : f \in _energy_bases(c)} : c \in Candidates(tags)}

-----------------------------------------------------------------------------
(* Places.                                                                  *)

\* The folder and the name of a tag's node: _parse_tag_group().  A measurement
\* or a tag of its own that is no part of a meter has no folder, and its full
\* tag as its name.
Place(t, energy) ==
    LET ungrouped == <<NoGroup, t>> IN
    IF Mode = "none" THEN ungrouped
    ELSE IF Mode = "azucarlito" /\ t.prop \in {"", "medida"}
    THEN IF Base(t) \in DOMAIN energy
         THEN LET meter == energy[Base(t)]
              IN  <<meter, Leaf(SubSeq(t.name, Len(meter.name) + 1, Len(t.name)))>>
         ELSE ungrouped
    ELSE IF t.prop = "" THEN ungrouped
    ELSE <<Base(t), Leaf(<<t.prop>>)>>

\* The description of a drive is its folder's, any other is the node's own.
DescribesFolder(t) == Mode = "azucarlito" /\ t.prop \notin {"", "medida"}

\* Has the mode descriptions at all?
HasDescriptions == Mode # "ifix"

\* The status a quality turns into.
map_quality(quality) == IF quality \in {"Good", "Uncertain"} THEN quality ELSE "Bad"
=============================================================================
