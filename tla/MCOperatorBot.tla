---------------------------- MODULE MCOperatorBot ----------------------------
(***************************************************************************)
(* OperatorBot for TLC: an action is armed, then confirmed, cancelled,     *)
(* overtaken or left to expire while something else runs; typed and tapped *)
(* updates, of the owner, of a chat that claims the bot and of a stranger. *)
(***************************************************************************)
EXTENDS OperatorBot

CONSTANTS Alice, Bob

MCChat == {Alice, Bob}
MCOwnerEnv == {Alice, None}

Typed(chats, texts) == [chat : chats, text : texts, button : {FALSE}]
Tapped(chats, texts) == [chat : chats, text : texts, button : {TRUE}]

MCInputs == <<
    Typed({Alice}, {"tick", "claim"}),
    Typed({Alice}, {"confirm", "stale guard", "demo", "simulate", "keeper"})
        \union Tapped({Alice}, {"tick", "exit", "cancel"}) \union Typed({Bob}, {"claim"}),
    Typed({Alice, Bob}, {"confirm"}) >>

MCButtons == <<
    Tapped({Alice}, {"tick"}),
    Typed({Alice}, {"confirm"}) \union Tapped({Alice}, {"confirm"}) >>

==============================================================================
