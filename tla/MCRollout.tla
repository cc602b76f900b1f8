----------------------------- MODULE MCRollout -----------------------------
(* CredentialRollout for TLC.  "." is printable and no hex digit.           *)
EXTENDS CredentialRollout

MCTexts == {<<>>, <<"1">>, <<"LF">>}
MCDigests == {<<"P", "a">>, <<"P", "A">>, <<"P", ".">>}
=============================================================================
