--------------------------- MODULE MCSessionFiles ---------------------------
EXTENDS SessionFiles, TLC

At(t) == [kind |-> "record", stamp |-> t]
Other(kind) == [kind |-> kind, stamp |-> 0]

\* Every kind of line before, between and after two records in time order.
OneFile ==
    {<<Other("comment"), At(1), Other("malformed"), Other("short"), At(2), Other("blank"), Other("unknown")>>}

\* The document that has only these keys.
Of(vals) ==
    LET used == {"root"} \cup {k[1] : k \in DOMAIN vals}
    IN  [shape |-> [s \in Sections |-> IF s \in used THEN "object" ELSE "absent"],
         val |-> [k \in Keys |-> IF k \in DOMAIN vals THEN vals[k] ELSE "absent"]]

\* The least a session needs; and a dataset there is no reader for.
Sketch == Of(Path :> "set")
Unknown == Of(Path :> "set" @@ Type :> "unknown" @@ <<"nav", "min_imu_dt_s">> :> "set")
TwoDocuments == {Sketch, Unknown}
=============================================================================
