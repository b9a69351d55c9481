--------------------------- MODULE MCMojomMessage ---------------------------
EXTENDS MojomMessage

CONSTANTS p1, p2

\* MessageHeader's versions: v0 {interface_id, name, flags} and v1 with the
\* request id, 24 and 32 bytes.
MCHeaderTable == (0 :> 24) @@ (1 :> 32)

\* One payload every interface version may send, one newer than Version.
MCMinVersion == (p1 :> 0) @@ (p2 :> 2)

\* Valid pairs of the table, and forged ones: a size not of its version,
\* and a version the table does not know.
MCForeignHeaders == {<<0, 24>>, <<1, 32>>, <<0, 32>>, <<2, 40>>}
=============================================================================
