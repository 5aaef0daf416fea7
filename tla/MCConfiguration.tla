--------------------------- MODULE MCConfiguration ----------------------------
(***************************************************************************)
(* Instance of Configuration: short files in every layout with one         *)
(* environment, and one file with many command lines and environments.     *)
(***************************************************************************)
EXTENDS Configuration

AllStrings == STRING

\* A directive: its name and its arguments, which are words.
D(name, args) == [name |-> name, args |-> args]
RefTo(x) == <<Ref(x)>>

AbsoluteTexts == {Text("/abs.cpp"), Text("NDK"), Text("PROJECT")}
NumberTexts == {Text("24"), Text("26"), Text("7")}
CNames == {Text("b.c")}

CoreDirectives ==
  {D("set", <<Word("X"), Word("a.cpp")>>), D("set", <<Word("Y"), RefTo("X")>>),
   D("abt_add_sources", <<RefTo("Y"), Word("b.c")>>),
   D("abt_architectures", <<Word("x86_64"), Word("bogus")>>)}
AllDirectives == CoreDirectives \cup
  {D("set", <<Word("X")>>), D("set", <<Word("X"), <<Text("lib"), Blank, Text("26")>>>>),
   D("abt_add_sources", <<Word("/abs.cpp")>>),
   D("abt_add_includes", <<<<Ref("ANDROID_NDK"), Text("inc")>>, Word("inc")>>),
   D("abt_link_libraries", <<Word("EGL"), <<Text("lib"), Ref("Z")>>>>),
   D("set", <<RefTo("Y"), RefTo("CMAKE_SOURCE_DIR")>>), D("abt_architectures", <<RefTo("x86"), Word("x86")>>),
   D("abt_build_type", <<Word("release")>>), D("abt_build_type", <<Word("fast")>>),
   D("abt_version", <<Word("2.0"), <<Text("7"), Text("rc")>>>>), D("abt_version", <<Word("2.0"), RefTo("X")>>),
   D("abt_set_min_sdk", <<<<Blank, Text("26")>>>>), D("abt_set_target_sdk", <<RefTo("X")>>),
   D("abt_project", <<<<Text("My"), Blank, Text("App")>>>>),
   D("abt_dependency", <<Word("g:a:1"), Word("g:b:1")>>),
   D("abt_output_dir", <<Word("out")>>), D("other", <<Word("a")>>)}

\* Words as they are written, with quotation marks where a word has a blank in it.
Written(words) ==
  FlattenSeq([i \in DOMAIN words |-> <<Blank>> \o (IF Blank \in Range(words[i]) THEN <<Quote>> \o words[i] \o <<Quote>>
                                                   ELSE words[i])])

\* The lines of a directive, and whether it counts and lets later ones count.
Layouts == {"line", "lines", "note", "off", "open"}
Lay(d, how) ==
  LET call == <<Text(d.name), Open>>
      args == Written(d.args)
  IN
  CASE how = "line" -> <<call \o args \o <<Close>>>>
    [] how = "lines" -> <<<<Blank>> \o call, args, <<>>, <<Close>>>>
    [] how = "note" -> <<call \o <<Hash, Close, Text("note")>>, args \o <<Close, Hash, Open>>>>
    [] how = "off" -> <<<<Hash>> \o call \o args>>
    [] how = "open" -> <<call \o args>>

File(ds, how) ==
  LET n == Len(ds)
      counts == {i \in 1..n : how[i] # "off" /\ \A j \in 1..i : how[j] # "open"}
      order == SetToSortSeq(counts, <)
  IN  [lines |-> FlattenSeq([i \in 1..n |-> Lay(ds[i], how[i])]),
       means |-> [k \in DOMAIN order |-> ds[order[k]]]]

\* Two directives on one line are one, with the second in the words of the first.
Joined(d, e) ==
  LET n == Len(d.args)
      m == Len(e.args)
      stuck(w) == w \o <<Close, Text(e.name), Open>>
  IN  [lines |-> <<Lay(d, "line")[1] \o Lay(e, "line")[1]>>,
       means |-> <<D(d.name, [d.args EXCEPT ![n] = stuck(@)] \o e.args)>>]

\* A file that its author did not mean: the words are parentheses, too.
Mistake ==
  [lines |-> <<<<Text("abt_add_sources"), Open>>, <<Text("abt_add_sources"), Open>>,
               <<Text("a.cpp"), Close>>, <<Close, Close>>>>,
   means |-> <<D("abt_add_sources", <<<<Text("abt_add_sources"), Open>>, <<Text("a.cpp"), Close>>, <<Close>>>>)>>]

Files ==
  UNION {{File(ds, how) : ds \in [1..n -> AllDirectives], how \in [1..n -> Layouts]} : n \in 0..2}
  \cup {File(ds, how) : ds \in [1..3 -> CoreDirectives], how \in [1..3 -> Layouts]}
  \cup {Joined(d, e) : d \in AllDirectives, e \in AllDirectives}
  \cup {Mistake, [lines |-> <<<<Close, Open, Text("a")>>>>, means |-> <<>>]}

\* What the reference reads from the lines of a file is what they were made of.
ASSUME LinesMean == \A f \in Files : Meaning(Directives(f.lines)) = Meaning(f.means)

Env == [ANDROID_NDK_HOME |-> "/ndk", ANDROID_NDK |-> "unset", NDK_ROOT |-> "unset",
        ANDROID_SDK_ROOT |-> "/sdk", ANDROID_HOME |-> "unset",
        dirs |-> {}, ndks |-> {"/ndk", "HOME/assets/android-ndk"}, apis |-> {Word("24"), Word("26")},
        sdks |-> [r \in {"/sdk"} |-> {<<3, 4>>}],
        machine |-> "x86_64", sdkAapt2 |-> "x86_64", pathAapt2 |-> FALSE, usrBinAapt2 |-> FALSE]

Input(command, argv, f, env) ==
  [command |-> command, argv |-> argv, file |-> "some", lines |-> f.lines, env |-> env]

AFile == File(<<D("abt_add_sources", <<Word("a.cpp"), Word("b.c")>>), D("abt_architectures", <<Word("x86"), Word("arm64-v8a")>>),
                D("abt_set_min_sdk", <<Word("26")>>), D("abt_link_libraries", <<Word("EGL")>>)>>,
              <<"line", "lines", "line", "note">>)

CommandLines ==
  {<<>>, <<<<"--release", <<>>>>>>, <<<<"--help", <<>>>>>>, <<<<"--arch", <<>>>>>>,
   <<<<"--arch", <<"x86_64">>>>, <<"--release", <<>>>>, <<"--arch", <<"bogus", "armeabi-v7a">>>>>>,
   <<<<"--arch", <<"bogus">>>>>>}

NdkEnvs == {[Env EXCEPT !.ANDROID_NDK_HOME = a, !.ANDROID_NDK = b, !.NDK_ROOT = c, !.dirs = d] :
             a \in {"unset", "", "/ndk", "/other"}, b \in {"unset", "", "/ndk"}, c \in {"unset", "/ndk"},
             d \in SUBSET {"HOME/assets/android-ndk"}}
SdkEnvs == {[Env EXCEPT !.ANDROID_SDK_ROOT = a, !.ANDROID_HOME = b, !.dirs = {"HOME/assets/android-sdk"},
                        !.sdks = [r \in {"/sdk", "HOME/assets/android-sdk"} |-> v], !.machine = m,
                        !.sdkAapt2 = t, !.pathAapt2 = p, !.usrBinAapt2 = u] :
             a \in {"unset", "", "/sdk"}, b \in {"unset", "/sdk"},
             v \in SUBSET {<<9>>, <<3, 0>>, <<3, 4>>}, m \in {"arm64", "x86_64"},
             t \in {"none", "x86_64", "arm64", "script"}, p \in BOOLEAN, u \in BOOLEAN}

\* Lines that open and close parentheses and quotation marks in any order.
Pieces == {<<Text("abt_add_sources"), Open>>, <<Text("a.cpp"), Close>>, <<Close, Close>>,
           <<Text("abt_add_sources"), Open, Blank, Quote, Text("b.c"), Blank, Close, Hash, Open>>,
           <<Ref("X"), Quote>>, <<>>}
Heaps == {[lines |-> ls] : ls \in UNION {[1..n -> Pieces] : n \in 1..5}}

AllInputs ==
  {Input("build", <<>>, f, Env) : f \in Files \cup Heaps}
  \cup {Input(c, argv, AFile, Env) : c \in {"none", "build", "clean", "watch", "info", "install", "other"},
                                     argv \in CommandLines}
  \cup {[Input("build", argv, AFile, Env) EXCEPT !.file = "none", !.lines = <<>>] : argv \in CommandLines}
  \cup {Input(c, <<>>, AFile, env) : c \in {"build", "info"}, env \in NdkEnvs}
  \cup {Input("build", argv, AFile, env) : argv \in {<<>>, <<<<"--64", <<>>>>>>, <<<<"--86", <<>>>>>>}, env \in SdkEnvs}
===============================================================================
