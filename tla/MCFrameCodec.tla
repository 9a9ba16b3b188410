---------------------------- MODULE MCFrameCodec ----------------------------
(* Lengths on both sides of every boundary; every head byte with a short   *)
(* length, and length fields around the limits of each form.               *)
EXTENDS FrameCodec

MCLength == {0, 1, 2, 125, 126, 127, 128, 255, 256, 65535, 65536, 65537,
             16777216, MaxInt - 1, MaxInt}
MCKey == <<17, 128, 255, 0>>

Heads == {<<h, b>> : h \in Byte, b \in {0, 1, 125}}
ShortForms == {<<h, 126, x, y>> : h \in {1, 130, 136, 137}, x \in {0, 1, 255},
                                  y \in {0, 1, 125, 126, 127, 255}}
LongForms == {<<130, 127, a, 0, 0, d, x, y, z, 255>> :
                a \in {0, 127, 128}, d \in {0, 1, 255}, x \in {0, 1, 127, 128, 255},
                y \in {0, 1, 255}, z \in {0, 255}}
Masked == {<<130, 254, 1, 0>> \o MCKey, <<129, 133>> \o MCKey}
MCRawHeader == Heads \union ShortForms \union LongForms \union Masked
=============================================================================
