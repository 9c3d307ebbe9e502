-------------------------- MODULE MCGtpcTransport --------------------------
EXTENDS GtpcTransport

CONSTANTS s1, s2, s3

\* An initial Create Session Request (TEID 0) and a Modify Bearer Request.
CreateReq == [tx |-> "create", teid |-> 0]
ModifyReq == [tx |-> "modify", teid |-> 1]

OneKey  == {CreateReq}
TwoKeys == {CreateReq, ModifyReq}
NoKeys  == {}
=============================================================================
