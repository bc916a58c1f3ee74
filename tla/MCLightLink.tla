---------------------------- MODULE MCLightLink ----------------------------
EXTENDS LightLink
=============================================================================
