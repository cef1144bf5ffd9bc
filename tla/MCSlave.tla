------------------------------- MODULE MCSlave -------------------------------
(* Instances of SlaveMessages for TLC.                                        *)
EXTENDS SlaveInvariant
CONSTANTS t1, t2, text, image, voice, sticker, place, mine, other

Callers == {t1, t2}
Several == {text, image, voice, sticker, place, mine, other}
EachKind == (text :> "text") @@ (image :> "image") @@ (voice :> "voice") @@
            (sticker :> "sticker") @@ (place :> "location") @@ (mine :> "mirrored") @@
            (other :> "mirrored")
MyIds == (mine :> MaxRows + 1) @@ (other :> MaxRows + 2)

Req(op, u) == [op |-> op, uid |-> u]

(* A message delivered again and again; one that is edited and removed;       *)
(* resent and reacted to; two of the user's own.                              *)
ManyScripts ==
    {<<Req("new", text), Req("new", text), Req("edit", text)>>,
     <<Req("new", image), Req("new", image), Req("editmedia", image)>>,
     <<Req("new", image), Req("editmedia", image), Req("edit", image)>>,
     <<Req("new", voice), Req("editmedia", voice), Req("removal", voice)>>,
     <<Req("new", sticker), Req("edit", sticker), Req("reaction", sticker)>>,
     <<Req("new", place), Req("edit", place), Req("removal", place)>>,
     <<Req("new", place), Req("edit", place), Req("edit", place)>>,
     <<Req("reaction", mine), Req("reaction", mine), Req("reaction", mine)>>,
     <<Req("reaction", mine), Req("reaction", other), Req("edit", mine)>>}
==============================================================================
