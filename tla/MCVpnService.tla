---------------------------- MODULE MCVpnService ----------------------------
EXTENDS VpnService
=============================================================================
