-------------------------- MODULE MCExpiringCache --------------------------
EXTENDS ExpiringCache

MCSeconds == 0..3
MCLimits == {0, 1, 3}
MCDefaults == {None, 2}
=============================================================================
