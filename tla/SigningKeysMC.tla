---------------------------- MODULE SigningKeysMC ----------------------------
\* Instances of SigningKeys for TLC.
EXTENDS SigningKeys

\* File names in directory order: with three, a rotation can go to a name that
\* sorts before, between or after the others.
ThreeKids == 1 .. 3
=============================================================================
