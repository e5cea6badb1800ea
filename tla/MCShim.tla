-------------------------------- MODULE MCShim --------------------------------
EXTENDS Shim

(* Empty, short, as long as the hooks look at, and longer by one.          *)
MCTypes == {<<>>, <<"DESKTOP">>, <<"OTHER">>, <<"OTHER", "DESKTOP">>,
            <<"DESKTOP", "OTHER", "DESKTOP">>}
MCStates == {<<>>, <<"OTHER">>, <<"BELOW">>, <<"OTHER", "OTHER">>, <<"OTHER", "BELOW">>,
             <<"OTHER", "OTHER", "OTHER">>}

MCRequests ==
  LET requests(property, lists) ==
        [via : Vias, property : {property}, mode : {"Replace", "Append"}, data : lists]
  IN requests("_TYPE", MCTypes) \cup requests("_STATE", MCStates)
===============================================================================
