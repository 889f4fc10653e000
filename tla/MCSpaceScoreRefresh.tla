------------------------ MODULE MCSpaceScoreRefresh ------------------------
EXTENDS SpaceScoreRefresh, RuleChecks

CONSTANTS a, b, s1, s2
=============================================================================
