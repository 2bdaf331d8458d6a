-------------------------- MODULE MCOAuthRefresh --------------------------
EXTENDS OAuthRefresh, TLC
CONSTANTS p1, p2, r1, a1
MCProcesses == {p1, p2}
MCRequests  == {r1}
MCAdmins    == {a1}
MCProcessOf == (r1 :> p1)
=============================================================================
