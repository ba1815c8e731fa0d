----------------------------- MODULE MCStorman -----------------------------
(* Instances of Storman for TLC; the constants' values are in the cfgs.    *)
EXTENDS Storman
=============================================================================
