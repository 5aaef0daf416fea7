----------------------------- MODULE Configuration ----------------------------
(***************************************************************************)
(* From the command line and AbtProject.cmake to what a build works with:  *)
(* main (src/src/main.cpp), ConfigParser, and the search for the NDK and   *)
(* the SDK in NDKBridge::probe and SDKBridge::probe.                       *)
(*                                                                         *)
(* A line of the file is a sequence of tokens: a blank, a quotation mark, a*)
(* parenthesis, a '#', a reference to a variable, or a text, which is      *)
(* characters that are none of these.  A word is a sequence of them, never *)
(* empty; two texts side by side are taken to be no other text.  An option *)
(* of the command line is a pair of its name and its values, what lies     *)
(* between the commas of the next argument.                                *)
(***************************************************************************)
EXTENDS Integers, Sequences, FiniteSets, SequencesExt

CONSTANTS Strings,     \* the strings (TLC: STRING, of whose elements TLAPS knows nothing)
          Inputs,      \* what abt may be started with: records [command, argv, file, lines, env]
          Absolute,    \* texts that begin with '/'
          Numbers,     \* texts std::stoi reads
          CFiles       \* texts that end in ".c"

Text(w) == <<"text", w>>
Ref(x) == <<"var", x>>
Open == <<"(">>
Close == <<")">>
Blank == <<" ">>
Quote == <<"'">>
Hash == <<"#">>
Inside == <<"project/">>   \* what a path that is not absolute is put behind
Texts == {"text"} \X (Strings \ {""})
Letters == Texts \cup ({"var"} \X Strings) \cup {Open, Close, Blank}
Tokens == Letters \cup {Quote, Hash}
Words == Seq(Letters) \ {<<>>}
Word(w) == <<Text(w)>>

\* The environment has the contents of ANDROID_NDK_HOME and so on, and what is on the disk.
\* abt is not started inside of an NDK, which it would find under the empty name.
ASSUME ConfigurationAssumption ==
  /\ {"", "24", "34", "1.0", "1", "build", "MyApp", "com.example.myapp", "ANDROID_NDK", "NDK",
      "CMAKE_SOURCE_DIR", "CMAKE_CURRENT_SOURCE_DIR", "PROJECT", "none"} \subseteq Strings
  /\ Absolute \cup Numbers \cup CFiles \subseteq Texts
  /\ \A x \in Inputs :
       /\ x.argv \in Seq(Strings \X Seq(Strings)) /\ x.lines \in Seq(Seq(Tokens))
       /\ "" \notin x.env.ndks
       /\ \A r \in DOMAIN x.env.sdks : /\ IsFiniteSet(x.env.sdks[r])
                                       /\ x.env.sdks[r] \subseteq Seq(Nat)

VARIABLES input,                   \* what it was started with
          phase, outcome,          \* what main does, how it ended
          left,                    \* options main has not looked at
          opts,                    \* the command line
          config, known,           \* BuildConfig, and the parser's vars_
          unread, accum, depth,    \* lines to read, accumLine, parenDepth
          ndkRoot, buildTools      \* found by the probes

parser == <<known, unread, accum, depth>>
tools  == <<ndkRoot, buildTools>>
vars   == <<input, phase, outcome, left, opts, config, parser, tools>>

KnownAbis == {"arm64-v8a", "x86_64", "armeabi-v7a", "x86"}

\* BuildConfig as it is constructed; "build" stands for <projectRoot>/build.
Defaults ==
  [projectName |-> Word(""), packageName |-> Word(""), minSdkVersion |-> Word("24"),
   targetSdkVersion |-> Word("34"), versionName |-> Word("1.0"), versionCode |-> Word("1"),
   outputDir |-> Word("build"), buildType |-> "debug", architectures |-> <<"arm64-v8a">>,
   cppSources |-> <<>>, includeDirs |-> <<>>, linkLibraries |-> <<>>, dependencies |-> <<>>]

\* The variables of a new parser; "NDK" and "PROJECT" stand for directories.
BuiltIn == [v \in {Word("ANDROID_NDK"), Word("CMAKE_SOURCE_DIR"), Word("CMAKE_CURRENT_SOURCE_DIR")} |->
              IF v = Word("ANDROID_NDK") THEN Word("NDK") ELSE Word("PROJECT")]

\* Directives that set a field to their first argument, and those that add to a list.
Scalar == [abt_project |-> "projectName", abt_set_package |-> "packageName",
           abt_set_min_sdk |-> "minSdkVersion", abt_set_target_sdk |-> "targetSdkVersion",
           abt_output_dir |-> "outputDir"]
Listed == [abt_add_sources |-> "cppSources", abt_add_includes |-> "includeDirs",
           abt_link_libraries |-> "linkLibraries"]
Numeric == {"minSdkVersion", "targetSdkVersion"}

Init ==
  /\ input \in Inputs
  /\ phase = "args" /\ outcome = "none" /\ left = input.argv
  /\ opts = [release |-> FALSE, host |-> "auto", arches |-> <<>>]
  /\ config = Defaults
  /\ known = BuiltIn
  /\ unread = <<>> /\ accum = <<>> /\ depth = 0
  /\ ndkRoot = "" /\ buildTools = <<>>

Finish(how) == phase' = "end" /\ outcome' = how

-------------------------------------------------------------------------------
(* main: the command line *)

\* One option.  --arch adds to what an earlier --arch named.
Option(o, name, values) ==
  CASE name = "--release" -> [o EXCEPT !.release = TRUE]
    [] name = "--64" -> [o EXCEPT !.host = "arm64"]
    [] name = "--86" -> [o EXCEPT !.host = "x86_64"]
    [] name = "--arch" -> [o EXCEPT !.arches = @ \o values]
    [] OTHER -> o

ParseArg ==
  /\ phase = "args" /\ input.command # "none" /\ left # <<>>
  /\ left' = Tail(left)
  /\ IF Head(left)[1] = "--help" THEN Finish("usage") /\ UNCHANGED opts
     ELSE opts' = Option(opts, Head(left)[1], Head(left)[2]) /\ UNCHANGED <<phase, outcome>>
  /\ UNCHANGED <<input, config, parser, tools>>

ArgsParsed ==
  /\ phase = "args"
  /\ \/ input.command = "none" /\ Finish("usage")
     \/ input.command = "clean" /\ left = <<>> /\ Finish("removed build")
     \/ input.command \notin {"none", "clean"} /\ left = <<>> /\ phase' = "open" /\ UNCHANGED outcome
  /\ UNCHANGED <<input, left, opts, config, parser, tools>>

\* ConfigParser::parse opens the file; without one main goes on with defaults.
OpenFile ==
  /\ phase = "open"
  /\ IF input.file = "none"
     THEN /\ config' = [config EXCEPT !.projectName = Word("MyApp"),
                                      !.packageName = Word("com.example.myapp")]
          /\ phase' = "override" /\ UNCHANGED unread
     ELSE /\ phase' = "line" /\ unread' = input.lines /\ UNCHANGED config
  /\ UNCHANGED <<input, outcome, left, opts, known, accum, depth, tools>>

-------------------------------------------------------------------------------
(* ConfigParser *)

\* The numbers of a finite set in order, and what a sequence keeps of its elements.
InOrder(S) == [k \in 1..Cardinality(S) |-> CHOOSE i \in S : Cardinality({j \in S : j <= i}) = k]
Kept(s, set) == LET order == InOrder({i \in DOMAIN s : s[i] \in set})
                IN  [k \in DOMAIN order |-> s[order[k]]]

\* Indices that hold a token; the text up to a '#'.
At(text, token) == {i \in DOMAIN text : text[i] = token}
WithoutComment(line) ==
  IF At(line, Hash) = {} THEN line ELSE SubSeq(line, 1, Min(At(line, Hash)) - 1)

\* The split on blanks, one token after the other: the words that are complete, what
\* there is of the next one, and whether quotation marks are open.
Complete(r) == IF r.word = <<>> THEN r.words ELSE Append(r.words, r.word)
Read(r, token) ==
  CASE token = Quote -> [r EXCEPT !.quoted = ~@]
    [] token = Blank /\ ~r.quoted -> [words |-> Complete(r), word |-> <<>>, quoted |-> FALSE]
    [] OTHER -> [r EXCEPT !.word = Append(@, token)]

\* Mutated Arguments: the last word is left out when no blank follows it.
Arguments_noLast(inner) ==
  LET read[i \in 0..Len(inner)] ==
        IF i = 0 THEN [words |-> <<>>, word |-> <<>>, quoted |-> FALSE] ELSE Read(read[i-1], inner[i])
  IN  read[Len(inner)].words

Arguments(inner) ==
  LET read[i \in 0..Len(inner)] ==
        IF i = 0 THEN [words |-> <<>>, word |-> <<>>, quoted |-> FALSE] ELSE Read(read[i-1], inner[i])
  IN  Complete(read[Len(inner)])

\* parseLine: the name is what stands before the first '(', the arguments what stands from
\* there to the last ')'.  When that comes first, the length is negative, which as a size_t
\* is the rest of the text.  A name that is more than one text is no directive's.
ParseLine(text) ==
  LET open  == Min(At(text, Open))
      close == Max(At(text, Close))
      name  == {i \in 1..open-1 : text[i] # Blank}
      inner == SubSeq(text, open + 1, IF close > open THEN close - 1 ELSE Len(text))
  IN  IF At(text, Open) # {} /\ At(text, Close) # {} /\ \E i \in name : name = {i} /\ text[i] \in Texts
      THEN [name |-> text[Min(name)][2], inner |-> inner]
      ELSE [name |-> "none", inner |-> <<>>]

\* expandVars: one pass; what a variable stands for is not looked into.
Expand(w) ==
  FlattenSeq([i \in DOMAIN w |-> IF w[i][1] = "var" /\ Word(w[i][2]) \in DOMAIN known
                                 THEN known[Word(w[i][2])] ELSE <<w[i]>>])

InProject(w) == IF w[1] \in Absolute THEN w ELSE <<Inside>> \o w
Paths(ws) == [i \in DOMAIN ws |-> InProject(ws[i])]
\* The architectures among some words.
Archs(ws) == LET abis == Kept(ws, {Word(a) : a \in KnownAbis}) IN [i \in DOMAIN abis |-> abis[i][1][2]]

\* std::stoi reads the number that a word begins with, after blanks; it throws, and nobody
\* catches, when there is none.
Beginning(w) == w[Min({i \in DOMAIN w : w[i] # Blank} \cup {Len(w)})]
IsNumber(w)  == Beginning(w) \in Numbers
Number(w)    == <<Beginning(w)>>

\* What one directive does.
HandleDirective(name, args) ==
  LET n == Len(args)
      set(field, value) ==
        config' = [config EXCEPT ![field] = value] /\ UNCHANGED <<known, phase, outcome>>
      abort == Finish("aborted") /\ UNCHANGED <<config, known>>
  IN
  CASE name = "set" /\ n >= 2 ->
         /\ known' = [v \in DOMAIN known \cup {args[1]} |-> IF v = args[1] THEN args[2] ELSE known[v]]
         /\ UNCHANGED <<config, phase, outcome>>
    [] name \in DOMAIN Scalar /\ n >= 1 ->
         IF Scalar[name] \notin Numeric THEN set(Scalar[name], args[1])
         ELSE IF IsNumber(args[1]) THEN set(Scalar[name], Number(args[1])) ELSE abort
    [] name \in DOMAIN Listed ->
         set(Listed[name], config[Listed[name]] \o IF name = "abt_link_libraries" THEN args ELSE Paths(args))
    [] name = "abt_dependency" /\ n >= 1 ->
         set("dependencies", Append(config.dependencies, args[1]))
    [] name = "abt_architectures" ->
         set("architectures", Archs(args))
    [] name = "abt_build_type" /\ n >= 1 ->
         set("buildType", IF args[1] = Word("release") THEN "release" ELSE "debug")
    [] name = "abt_version" /\ n >= 2 ->
         IF ~IsNumber(args[2]) THEN Finish("aborted")
              /\ config' = [config EXCEPT !.versionName = args[1]] /\ UNCHANGED known
         ELSE /\ config' = [config EXCEPT !.versionName = args[1], !.versionCode = Number(args[2])]
              /\ UNCHANGED <<known, phase, outcome>>
    [] OTHER -> UNCHANGED <<config, known, phase, outcome>>

Opened(line) == Cardinality(At(line, Open))
Closed(line) == Cardinality(At(line, Close))

\* One line: it is added to what is pending, and when every parenthesis opened so far is
\* closed, that is one directive.
NextLine ==
  /\ phase = "line" /\ unread # <<>>
  /\ unread' = Tail(unread)
  /\ LET line == WithoutComment(Head(unread))
         text == accum \o <<Blank>> \o line
         opened == depth + Opened(line)
     IN  IF opened > Closed(line)
         THEN /\ accum' = text /\ depth' = opened - Closed(line)
              /\ UNCHANGED <<config, known, phase, outcome>>
         ELSE /\ accum' = <<>> /\ depth' = 0
              /\ LET d == ParseLine(text)
                     args == Arguments(d.inner)
                 IN  HandleDirective(d.name, [i \in DOMAIN args |-> Expand(args[i])])
  /\ UNCHANGED <<input, left, opts, tools>>

\* The end of the file: what is pending is dropped without a word.
EndOfFile ==
  /\ phase = "line" /\ unread = <<>>
  /\ phase' = "override"
  /\ UNCHANGED <<input, outcome, left, opts, config, parser, tools>>

-------------------------------------------------------------------------------
(* main: overrides and commands *)

\* Mutated Override: unknown names are not left out.
Override_noFilter ==
  /\ phase = "override"
  /\ config' = [config EXCEPT
       !.buildType = IF opts.release THEN "release" ELSE @,
       !.architectures = IF opts.arches # <<>> THEN opts.arches ELSE @]
  /\ IF input.command \in {"build", "install", "watch", "info"}
     THEN phase' = "ndk" /\ UNCHANGED outcome ELSE Finish("usage")
  /\ UNCHANGED <<input, left, opts, parser, tools>>

Override ==
  /\ phase = "override"
  /\ config' = [config EXCEPT
       !.buildType = IF opts.release THEN "release" ELSE @,
       !.architectures = IF opts.arches # <<>>
                         THEN Kept(opts.arches, KnownAbis) ELSE @]
  /\ IF input.command \in {"build", "install", "watch", "info"}
     THEN phase' = "ndk" /\ UNCHANGED outcome ELSE Finish("usage")
  /\ UNCHANGED <<input, left, opts, parser, tools>>

-------------------------------------------------------------------------------
(* The environment.  input.env has a value for each environment variable, "unset"    *)
(* and "" included, and says what is on the disk.                                    *)

NdkNames == <<"ANDROID_NDK_HOME", "ANDROID_NDK", "NDK_ROOT">>
SdkNames == <<"ANDROID_SDK_ROOT", "ANDROID_HOME">>

\* The value of the first of some variables whose value is not one of these.
FirstSet(names, nothing, default) ==
  LET is == {i \in DOMAIN names : input.env[names[i]] \notin nothing}
  IN  IF is = {} THEN default ELSE input.env[names[Min(is)]]

\* What ${ANDROID_NDK} stands for: ConfigParser's constructor.
ParserNdk == FirstSet(NdkNames, {"unset", ""}, "HOME/asserts/android_NDK")

\* What a probe uses: a variable that is set to nothing counts.
Found(names, default) ==
  FirstSet(names, {"unset"}, IF default \in input.env.dirs THEN default ELSE "none")

\* NDKBridge::probe: the 64-bit ARM compiler for minSdkVersion must be there.
ProbeNdk ==
  /\ phase = "ndk"
  /\ LET root == Found(NdkNames, "HOME/assets/android-ndk") IN
       /\ ndkRoot' = root
       /\ IF \/ input.command = "info"
             \/ root \in input.env.ndks /\ config.minSdkVersion \in input.env.apis
          THEN phase' = "sdk" /\ UNCHANGED outcome ELSE Finish("ndk not found")
  /\ UNCHANGED <<input, left, opts, config, parser, buildTools>>

\* std::sort of names, greatest first; a version is the sequence of its digits.
Before(v, w) ==
  \/ \E i \in DOMAIN v \cap DOMAIN w : v[i] < w[i] /\ \A j \in 1..i-1 : v[j] = w[j]
  \/ Len(v) < Len(w) /\ \A i \in DOMAIN v : v[i] = w[i]
Newest(versions) ==
  IF versions = {} THEN <<>> ELSE CHOOSE v \in versions : \A w \in versions \ {v} : Before(w, v)

\* Mutated Aapt2: it is not tested whether the SDK's runs.
Aapt2_untested ==
  LET env == input.env IN
  CASE env.machine = "arm64" /\ opts.host = "auto" /\ env.pathAapt2 -> "path" [] OTHER -> "sdk"

\* aapt2Path: the system's on an ARM host, the SDK's on an x86 host when it runs there.
Aapt2 ==
  LET env == input.env
      host == IF opts.host = "auto" THEN IF env.machine = "arm64" THEN "arm64" ELSE "x86_64"
              ELSE opts.host
      runnable == env.sdkAapt2 \in {env.machine, "script"}
  IN  CASE host = "arm64" /\ env.pathAapt2 -> "path"
        [] host = "arm64" /\ env.usrBinAapt2 -> "/usr/bin"
        [] host = "x86_64" /\ ~runnable /\ env.pathAapt2 -> "path"
        [] OTHER -> "sdk"

\* SDKBridge::probe
ProbeSdk ==
  /\ phase = "sdk"
  /\ LET root == Found(SdkNames, "HOME/assets/android-sdk")
         versions == IF root \in DOMAIN input.env.sdks THEN input.env.sdks[root] ELSE {}
     IN  /\ buildTools' = Newest(versions)
         /\ CASE input.command = "info" -> Finish("exit0")
              [] versions = {} -> Finish("sdk not found")
              [] Aapt2 = "sdk" /\ input.env.sdkAapt2 = "none" -> Finish("sdk not found")
              [] OTHER -> Finish("builds")
  /\ UNCHANGED <<input, left, opts, config, parser, ndkRoot>>

(* What the tools are called with: NDKBridge's flags in compileSource and linkObjects *)

IsC(src) == src[Len(src)] \in CFiles
Target(arch) == <<"-target", arch, config.minSdkVersion>>
Sysroot == <<"--sysroot", ndkRoot>>
Release(flags) == IF config.buildType = "release" THEN flags ELSE <<>>
Debug(flags) == IF config.buildType = "release" THEN <<>> ELSE flags
Tuning == [a \in {"arm64-v8a", "armeabi-v7a"} |->
             IF a = "arm64-v8a" THEN <<<<"-march=armv8-a+simd">>>>
             ELSE <<<<"-march=armv7-a">>, <<"-mfloat-abi=softfp">>>>]

CompileFlags(arch) ==
  <<Target(arch), Sysroot, <<"-fPIC">>, <<"-std=c++17">>>>
  \o Release(<<<<"-O3">>, <<"-flto">>, <<"-DNDEBUG">>>>) \o Debug(<<<<"-O0">>, <<"-g">>, <<"-DDEBUG">>>>)
  \o (IF arch \in DOMAIN Tuning THEN Tuning[arch] ELSE <<>>)
  \o [i \in DOMAIN config.includeDirs |-> <<"-I", config.includeDirs[i]>>]

\* Mutated LinkFlags: no -flto.
LinkFlags_noLto(arch) ==
  <<Target(arch), Sysroot, <<"-shared">>, <<"--gc-sections">>, <<"--undefined=ANativeActivity_onCreate">>>>
  \o Release(<<<<"--strip-debug">>>>)

LinkFlags(arch) ==
  <<Target(arch), Sysroot, <<"-shared">>, <<"--gc-sections">>, <<"--undefined=ANativeActivity_onCreate">>>>
  \o Release(<<<<"-flto">>, <<"--strip-debug">>>>)

LinkLibFlags ==
  [i \in DOMAIN config.linkLibraries |-> <<"-l", config.linkLibraries[i]>>]
  \o <<<<"-l", Word("android")>>, <<"-l", Word("log")>>>>

\* The clang or clang++ of an architecture, and the object of a source for it.
Compiler(arch, c) == <<IF c THEN "clang" ELSE "clang++", ndkRoot, arch, config.minSdkVersion>>
Object(src, arch) == <<arch, src>>

CompileCommand(src, arch) ==
  <<Compiler(arch, IsC(src))>>
  \o Kept(CompileFlags(arch), Range(CompileFlags(arch)) \ IF IsC(src) THEN {<<"-std=c++17">>} ELSE {})
  \o <<<<"-c", src>>, <<"-o", Object(src, arch)>>>>

LinkCommand(arch) ==
  <<Compiler(arch, FALSE)>> \o LinkFlags(arch)
  \o [i \in DOMAIN config.cppSources |-> <<"in", Object(config.cppSources[i], arch)>>]
  \o <<<<"-o", arch>>>> \o LinkLibFlags

-------------------------------------------------------------------------------

Next ==
  \/ ParseArg \/ ArgsParsed \/ OpenFile \/ NextLine \/ EndOfFile \/ Override \/ ProbeNdk \/ ProbeSdk
  \/ phase = "end" /\ UNCHANGED vars

Spec == Init /\ [][Next]_vars /\ WF_vars(Next)

-------------------------------------------------------------------------------
(* The reference: what a file says, read off its text as a whole                 *)

\* How many more parentheses the first i lines open than they close, outside of comments.
Stripped(lines) == FlattenSeq([i \in DOMAIN lines |-> <<Blank>> \o WithoutComment(lines[i])])
Balance(lines, i) == LET text == Stripped(SubSeq(lines, 1, i)) IN Opened(text) - Closed(text)

\* A directive ends with the lines after which no more are open than after any line before.
Ends(lines) == {i \in DOMAIN lines : \A j \in 0..i-1 : Balance(lines, i) <= Balance(lines, j)}

\* The words of a text: the parts between blanks outside of quotation marks, less the
\* marks, when anything is left of them.
InQuotes(text, i) == Cardinality(At(text, Quote) \cap 1..i) % 2 = 1
Cuts(text) == {i \in At(text, Blank) : ~InQuotes(text, i)} \cup {Len(text) + 1}
LastCut(text, i) == Max({0} \cup (Cuts(text) \cap 1..i-1))
Unquoted(text) == FlattenSeq([i \in DOMAIN text |-> IF text[i] = Quote THEN <<>> ELSE <<text[i]>>])
Part(text, i) == Unquoted(SubSeq(text, LastCut(text, i) + 1, i - 1))
WordsOf(text) ==
  FlattenSeq([i \in 1..Len(text)+1 |-> IF i \in Cuts(text) /\ Part(text, i) # <<>>
                                       THEN <<Part(text, i)>> ELSE <<>>])

\* The directive that ends with a line, one for each line: most have none.  Where its name and
\* its parentheses are, both sides take from ParseLine: that is compared with directives whose
\* name and words are given (LinesMean in MCConfiguration).
Start(lines, i) == Max({0} \cup (Ends(lines) \cap 1..i-1)) + 1
Call(text) == [name |-> ParseLine(text).name, args |-> WordsOf(ParseLine(text).inner)]
Directives(lines) ==
  [i \in DOMAIN lines |-> Call(IF i \in Ends(lines) THEN Stripped(SubSeq(lines, Start(lines, i), i))
                               ELSE <<>>)]

\* The value of a word before the i-th directive, when those before it have these arguments:
\* a variable in it is what the last set of it says.
Sets(ds, args, i, x) ==
  {j \in 1..i-1 : ds[j].name = "set" /\ Len(ds[j].args) >= 2 /\ args[j][1] = Word(x)}
Stands(ds, args, i, letter) ==
  LET sets == Sets(ds, args, i, letter[2])
  IN  IF letter[1] # "var" THEN <<letter>>
      ELSE IF sets # {} THEN args[Max(sets)][2]
      ELSE IF Word(letter[2]) \in DOMAIN BuiltIn THEN BuiltIn[Word(letter[2])] ELSE <<letter>>
Value(ds, args, i, w) == FlattenSeq([k \in DOMAIN w |-> Stands(ds, args, i, w[k])])

\* The arguments of all directives with their values.
Values(ds) ==
  LET args[i \in DOMAIN ds] == [k \in DOMAIN ds[i].args |-> Value(ds, args, i, ds[i].args[k])]
  IN  args

\* A scalar is what the last directive for it says, a list what all of them say in turn.
Says(ds, name, n) == {i \in DOMAIN ds : ds[i].name = name /\ Len(ds[i].args) >= n}
LastSaid(ds, name, n, k, default) ==
  LET says == Says(ds, name, n) IN IF says = {} THEN default ELSE Values(ds)[Max(says)][k]
All(ds, name) ==
  FlattenSeq([i \in DOMAIN ds |-> IF ds[i].name = name THEN Values(ds)[i] ELSE <<>>])
Firsts(ds, name) ==
  FlattenSeq([i \in DOMAIN ds |-> IF i \in Says(ds, name, 1) THEN <<Values(ds)[i][1]>> ELSE <<>>])

Meaning(ds) ==
  [projectName |-> LastSaid(ds, "abt_project", 1, 1, Defaults.projectName),
   packageName |-> LastSaid(ds, "abt_set_package", 1, 1, Defaults.packageName),
   minSdkVersion |-> Number(LastSaid(ds, "abt_set_min_sdk", 1, 1, Defaults.minSdkVersion)),
   targetSdkVersion |-> Number(LastSaid(ds, "abt_set_target_sdk", 1, 1, Defaults.targetSdkVersion)),
   versionName |-> LastSaid(ds, "abt_version", 2, 1, Defaults.versionName),
   versionCode |-> Number(LastSaid(ds, "abt_version", 2, 2, Defaults.versionCode)),
   outputDir |-> LastSaid(ds, "abt_output_dir", 1, 1, Defaults.outputDir),
   buildType |-> IF LastSaid(ds, "abt_build_type", 1, 1, Word("debug")) = Word("release")
                 THEN "release" ELSE "debug",
   architectures |-> LET says == Says(ds, "abt_architectures", 0)
                     IN  IF says = {} THEN Defaults.architectures ELSE Archs(Values(ds)[Max(says)]),
   cppSources |-> Paths(All(ds, "abt_add_sources")),
   includeDirs |-> Paths(All(ds, "abt_add_includes")),
   linkLibraries |-> All(ds, "abt_link_libraries"),
   dependencies |-> Firsts(ds, "abt_dependency")]

-------------------------------------------------------------------------------

Ints == {<<n>> : n \in Numbers \cup {Text("24"), Text("34"), Text("1")}}
Places == Seq(Letters \cup {Inside}) \ {<<>>}
Configs ==
  [projectName : Words \cup {Word("")}, packageName : Words \cup {Word("")},
   minSdkVersion : Ints, targetSdkVersion : Ints, versionName : Words, versionCode : Ints, outputDir : Words,
   buildType : {"debug", "release"}, architectures : Seq(KnownAbis), cppSources : Seq(Places),
   includeDirs : Seq(Places), linkLibraries : Seq(Words), dependencies : Seq(Words)]

\* Every variable has its type: whatever a file holds, BuildConfig has no empty word (InProject
\* reads the first character), no comment, no number that was not read as one and no
\* architecture that abt does not know.
TypeOK ==
  /\ phase \in {"args", "open", "line", "override", "ndk", "sdk", "end"}
  /\ outcome \in {"none", "usage", "removed build", "aborted", "ndk not found", "sdk not found",
                  "exit0", "builds"}
  /\ phase = "end" <=> outcome # "none"
  /\ opts \in [release : BOOLEAN, host : {"auto", "arm64", "x86_64"}, arches : Seq(Strings)]
  /\ config \in Configs /\ DOMAIN known \subseteq Words /\ known \in [DOMAIN known -> Words]
  /\ accum \in Seq(Tokens \ {Hash}) /\ depth \in Nat /\ (depth = 0 => accum = <<>>)

\* However a file is laid out - directives over several lines, comments with parentheses
\* in them, two directives on a line - the parser ends with what its directives mean, up
\* to the first that is never closed; those after it are dropped and parse succeeds.
ConfigIsMeaning ==
  phase = "override" /\ input.file # "none" => config = Meaning(Directives(input.lines))

\* abt that goes on to build has in ${ANDROID_NDK} the NDK it compiles with, when any of
\* the three variables is set; it calls an aapt2 that runs on the host if the SDK or the
\* PATH has one; and it uses the highest build-tools version, when all have as many digits.
ToolsAgree ==
  outcome = "builds" =>
    LET env == input.env
        versions == env.sdks[Found(SdkNames, "HOME/assets/android-sdk")]
    IN  /\ (\E i \in DOMAIN NdkNames : env[NdkNames[i]] # "unset") => ParserNdk = ndkRoot
        /\ env.pathAapt2 \/ (opts.host = "auto" /\ env.sdkAapt2 = env.machine)
             => (Aapt2 = "sdk" => env.sdkAapt2 \in {env.machine, "script"})
        /\ (\A v \in versions : Len(v) = Len(buildTools))
             => \A v \in versions \ {buildTools} : \E i \in DOMAIN v :
                  v[i] < buildTools[i] /\ \A j \in 1..i-1 : v[j] <= buildTools[j]

\* For every source and architecture: no C file is compiled as C++17, objects compiled with
\* -flto are linked with it and no others, and the link takes the object that the compiler
\* wrote, before every library.
CommandsCohere ==
  outcome = "builds" =>
    \A a \in Range(config.architectures) :
      LET link == LinkCommand(a)
          has(cmd, flag) == \E i \in DOMAIN cmd : cmd[i] = flag
      IN  \A src \in Range(config.cppSources) :
            LET cc == CompileCommand(src, a) IN
              /\ IsC(src) => ~has(cc, <<"-std=c++17">>) /\ cc[1][1] = "clang"
              /\ has(cc, <<"-flto">>) <=> has(link, <<"-flto">>)
              /\ Tail(cc[1]) = Tail(link[1])
              /\ \E i \in DOMAIN link :
                   /\ link[i] = <<"in", cc[Len(cc)][2]>>
                   /\ \A j \in DOMAIN link : link[j][1] = "-l" => i < j
===============================================================================
