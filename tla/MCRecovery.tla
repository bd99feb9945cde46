----------------------------- MODULE MCRecovery -----------------------------
(* Small sets of commands for TLC.                                         *)
EXTENDS Recovery

MCCommands == { <<"update", "show_text">>, <<"update", "locale">>, <<"wipe_data", "locale">>,
                <<"wipe_data", "wipe_media">>, <<"wipe_cache">>,
                <<"wipe_media", "show_text">>, <<"just_exit">>, <<"sideload">>,
                <<"update", "wipe_media", "send_intent">> }
MCUpdateWipe == { <<"update", "wipe_data">> }

=============================================================================
