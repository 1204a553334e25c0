---------------------------- MODULE MCDeviceFeed ----------------------------
\* Two boots of three packets, and time for a controller to fall silent twice.
EXTENDS DeviceFeed
=============================================================================
