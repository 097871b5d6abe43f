----------------------------- MODULE MCCreatives ------------------------------
(* The instance of CreativePool for TLC: ids on both sides of the house ads',  *)
(* so that a new ad may sort before or after them.                             *)
EXTENDS CreativePool

HouseAds == <<2, 3>>
=============================================================================
