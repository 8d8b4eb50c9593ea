------------------------------ MODULE PanelsMC ------------------------------
(* The panels for TLC: two models and two mount types of the config       *)
(* generator's catalogue, one known coordinator and one unknown.           *)
EXTENDS Panels

MCModelLists == {<<"s30", "s50">>, <<"s50">>}
MCMountLists == {<<"altaz", "equatorial">>}
=============================================================================
