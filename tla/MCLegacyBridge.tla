---------------------------- MODULE MCLegacyBridge ----------------------------
(* LegacyBridge for TLC: the tags of a small sugar mill.                    *)
EXTENDS LegacyBridge

tag(branch, name, prop) == [branch |-> branch, name |-> name, prop |-> prop]

tank      == tag("", <<"A">>, "medida")
tankAgain == tag("All", <<"A">>, "medida")
tankUnit  == tag("", <<"A">>, "unidad")
drive     == tag("", <<"B">>, "velocidad")
driveHour == tag("", <<"B">>, "horasMarcha")
driveText == tag("", <<"B", "I">>, "descripcion")
power     == tag("", <<"C", "P">>, "")
total     == tag("", <<"C", "T">>, "medida")
inner     == tag("", <<"C", "T", "X">>, "")
watch     == tag("", <<"@", "W">>, "")

\* Two states of the plant.
Plants == {{tank, tankAgain}, {drive, power}}

\* A plant whose server has no tags at first.
Growing == {{}, {power}}

Samples == {tank, tankAgain, tankUnit, drive, driveHour, driveText, power, total, inner, watch}

\* What the filter of the sugar mill promises of any listing, whatever the
\* order of its steps: one tag for a name, no tag of the server or description,
\* of what is measured the value only, and of the rest drives and loose tags.
ASSUME FilterPromise ==
    Mode = "azucarlito" =>
      \A listing \in SUBSET Samples : \A kept \in Filtered(listing) :
        /\ kept \subseteq listing \ {watch, driveText, tankUnit}
        /\ ~ {tank, tankAgain} \subseteq kept
        /\ {tank, tankAgain} \cap listing # {} => {tank, tankAgain} \cap kept # {}
        /\ {drive, power, total} \cap listing \subseteq kept
        /\ driveHour \in kept <=> {drive, driveHour} \subseteq listing
        \* Beside C_T.medida, C_T_X is kept as a part of the meter C only.
        /\ inner \in listing =>
             (inner \in kept <=> power \in listing \/ total \notin listing)
=============================================================================
