--------------------------- MODULE MCSalesforceSync ---------------------------
EXTENDS SalesforceSync

CONSTANTS p1, p2

MCMalformed == {<<2, 1>>}
MCUnarchivable == {<<2, 2>>}
=============================================================================
