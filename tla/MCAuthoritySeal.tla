-------------------------- MODULE MCAuthoritySeal ---------------------------
(* Two archives with two videos and one: a pilot of two takes one archive    *)
(* or both, as the ranking has it.  The volume holds the media twice.        *)
EXTENDS AuthoritySeal

MCArchiveOf == <<1, 1, 2>>
MCRankings == {<<1, 3, 2>>, <<3, 1, 2>>}
=============================================================================
