---------------------------- MODULE MCConfigText ----------------------------
(* Instances of ConfigText for TLC: all short texts, and the example text
   in the comments of config.cpp. *)
EXTENDS ConfigText

CONSTANT MaxLen

ShortTexts == UNION {[1..n -> Classes] : n \in 0..MaxLen}

\* The example above Document::parse: a: b: c:d c1:d1 e: c:d c1:d1.
ExampleTexts ==
    { << "k", "colon", "nl",
         "blank", "k", "colon", "nl",
         "blank", "blank", "k", "colon", "k", "nl",
         "blank", "blank", "k", "colon", "k", "nl",
         "blank", "k", "colon", "nl",
         "blank", "blank", "k", "colon", "k", "nl",
         "blank", "blank", "k", "colon", "k" >> }
=============================================================================
