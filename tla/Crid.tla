-------------------------------- MODULE Crid --------------------------------
(***************************************************************************)
(* CRID v1 of crid.go: the identifier of a resource that its public key    *)
(* derives to.  A CRID text is kept by what the gates tell apart: its      *)
(* characters, its length, its spare bits, its checksum, and the version   *)
(* byte and digest it encodes.  The digest is ideal: a key is its digest.  *)
(***************************************************************************)
EXTENDS JsonBody

FullLength == 60
TruncatedLength == 47
EnvironmentBit == 128

EnvironmentOf(version) == IF version >= EnvironmentBit THEN "test" ELSE "production"

Row(version, length, status) ==
    [version |-> version, length |-> length, status |-> status,
     environment |-> EnvironmentOf(version)]
Registry == {Row(1, FullLength, "active"), Row(129, FullLength, "active"),
             Row(2, TruncatedLength, "reserved"), Row(130, TruncatedLength, "reserved")}

\* The text a key derives to under a version byte, in a length.
Derive(version, key, length) ==
    [alphabet |-> TRUE, length |-> length, canonical |-> TRUE, checksum |-> TRUE,
     version |-> version, digest |-> key]

\* The local gate.  It forwards every version byte but zero.
ValueGate(crid) ==
    FirstOf(<<Unless(crid.alphabet, "charset"),
              Unless(crid.length \in {FullLength, TruncatedLength}, "length"),
              Unless(crid.canonical, "non_canonical"),
              Unless(crid.checksum, "checksum"),
              Unless(crid.version # 0, "version")>>)

Rows(crid) == {row \in Registry : row.version = crid.version}

\* The environment a consumer shows for a CRID; "error" for a registered version
\* in a length that the registry does not give it.
VersionReport(crid) ==
    IF ValueGate(crid) # Pass \/ \E row \in Rows(crid) : row.length # crid.length
    THEN "error"
    ELSE IF Rows(crid) = {} THEN "unknown" ELSE EnvironmentOf(crid.version)

\* (a slip: the key is compared with the digest, whatever the text around it)
KeyMatches_DigestOnly(crid, key) == crid.digest = key

\* A delivered key is used only when it derives to the CRID that is held, under
\* the version byte and in the length of that CRID.
KeyMatches(crid, key) ==
    /\ ValueGate(crid) = Pass
    /\ Derive(crid.version, key, crid.length) = crid
=============================================================================
