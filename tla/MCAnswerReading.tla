-------------------------- MODULE MCAnswerReading --------------------------
(***************************************************************************)
(* A small instance of AnswerReading for TLC: dates around the ends of     *)
(* minutes, days, months, years and of the calendar, and the defects that  *)
(* fields and URLs may have.                                               *)
(***************************************************************************)
EXTENDS AnswerReading, TLC

At(year, month, day, hour, minute, second) ==
    [form |-> "imf", zone |-> "GMT", year |-> year, month |-> month,
     day |-> day, hour |-> hour, minute |-> minute, second |-> second,
     weekday |-> IF month \in 1..12 THEN Weekday(DayNumber(year, month, day))
                 ELSE 0]

\* Scans in the year of the release, at both ends of a century and towards the
\* end of the calendar.
MCNows ==
    {At(2026, 7, 23, 0, 0, 0), At(1999, 12, 31, 23, 59, 59),
     At(2070, 1, 1, 0, 0, 0), At(9990, 1, 1, 0, 0, 0)}

RightTexts ==
    {At(2026, 7, 23, 0, 0, 0), At(2076, 2, 29, 1, 1, 1), At(1977, 3, 1, 1, 1, 1),
     At(2027, 1, 1, 0, 0, 0), At(1950, 5, 5, 5, 5, 5), At(2000, 2, 29, 0, 0, 0),
     At(2049, 12, 31, 23, 59, 59), At(2100, 1, 1, 0, 0, 0),
     At(2026, 6, 30, 23, 59, 60), At(1999, 12, 31, 23, 59, 60),
     At(2026, 7, 23, 4, 30, 60)}

WrongTexts ==
    {At(LastYear, 12, 31, 23, 59, 60), At(2026, 7, 23, 0, 0, 61),
     At(2026, 2, 29, 0, 0, 0), At(2100, 2, 29, 0, 0, 0), At(0, 1, 1, 0, 0, 0),
     At(2026, 7, 23, 24, 0, 0), At(2026, 7, 23, 0, 60, 0),
     [At(2026, 7, 23, 0, 0, 0) EXCEPT !.weekday = 0],
     [At(2026, 7, 23, 0, 0, 0) EXCEPT !.month = Missing]}

Texts ==
    LET imf == RightTexts \cup WrongTexts IN
    imf \cup {[t EXCEPT !.zone = "UTC"] : t \in imf}
        \cup {InAsctime(t) : t \in imf} \cup {InRfc850(t) : t \in imf}

DateSays(text) == [kind |-> "date", text |-> text]
Structured(at, parameters) ==
    [kind |-> "structured", at |-> at, parameters |-> parameters]

Once(says) == <<[safe |-> TRUE, says |-> says]>>
Unsafe(says) == <<[safe |-> FALSE, says |-> says]>>
Twice(says) == Once(says) \o Once(says)

Junk == DateSays([form |-> "other"])

MCSunsetFields ==
    {<<>>, Once(Junk), Unsafe(Junk), Twice(DateSays(At(2026, 7, 23, 0, 0, 0)))}
    \cup {Once(DateSays(t)) : t \in Texts}

MCDeprecationFields ==
    {<<>>, Once(Junk), Unsafe(Junk), Twice([kind |-> "boolean"]),
     Once([kind |-> "boolean"])}
    \cup {Once(DateSays(t)) :
             t \in {At(2026, 7, 23, 0, 0, 1), At(LastYear, 12, 31, 23, 59, 60),
                    [At(1977, 3, 1, 1, 1, 1) EXCEPT !.zone = "UTC"],
                    InAsctime(At(1977, 3, 1, 1, 1, 1))}}
    \cup {Once(Structured([day |-> day, second |-> 1], parameters)) :
             day \in {0, 1, DayNumber(2026, 7, 23), LastDay, LastDay + 1},
             parameters \in BOOLEAN}

Link(relations, target, url, wellFormed) ==
    [relations |-> relations, target |-> target, url |-> url,
     wellFormed |-> wellFormed]

Policy == Link({"sunset", "help"}, "absolute", "u1", TRUE)
Help == Link({"help"}, "foreign", "u2", TRUE)
Unreadable == Link({"help"}, "unreadable", "u3", TRUE)
Foreign == Link({"deprecation"}, "foreign", "u4", TRUE)
Garbled == Link({}, "absolute", "u5", FALSE)
Relative == Link({"deprecation"}, "relative", "u6", TRUE)
Private == Link({"sunset"}, "credentials", "u7", TRUE)
Mail == Link({"deprecation"}, "hostless", "u8", TRUE)
Malformed == Link({"help"}, "malformed", "u9", TRUE)

Line(values) == [safe |-> TRUE, balanced |-> TRUE, values |-> values]

SoundLine == Line(<<Policy, Help, Relative>>)

Lines ==
    {SoundLine, Line(<<Mail, Unreadable, Policy>>),
     Line(<<Relative, Foreign, Policy>>), Line(<<Policy, Garbled, Relative>>),
     Line(<<Private, Mail>>), Line(<<Help>>), Line(<<Malformed, Policy>>),
     [Line(<<Policy>>) EXCEPT !.safe = FALSE],
     [Line(<<Policy>>) EXCEPT !.balanced = FALSE]}

MCLinkFields ==
    {<<>>} \cup {<<l>> : l \in Lines} \cup {<<l, SoundLine>> : l \in Lines}

MCRetryAfters ==
    {Missing, [kind |-> "seconds", seconds |-> 0], [kind |-> "seconds", seconds |-> 5],
     [kind |-> "seconds", seconds |-> 100000], [kind |-> "unconvertible"],
     Junk}
    \cup {DateSays(t) : t \in Texts}

Label(word, spelling) == [word |-> word, spelling |-> spelling]

Host(labels) == [labels |-> labels, finalDot |-> FALSE, encodable |-> TRUE]

\* A host whose first label may be spelled in another way.
Spelled(spelling, first, rest) ==
    Host(<<Label(first, spelling)>>
            \o [n \in DOMAIN rest |-> Label(rest[n], "plain")])

\* The normalized name of a host that is spelled plainly.
Name(words) == [n \in DOMAIN words |-> <<words[n], "folded">>]

Url(scheme, host, port) ==
    [unreadable |-> "nothing", scheme |-> scheme, userinfo |-> FALSE,
     fragment |-> FALSE, host |-> host, port |-> port, requestable |-> TRUE]

MCExactHosts == {Name(<<"strasse", "example">>), Name(<<"localhost">>)}
MCWildcardSuffixes == {Name(<<"example">>)}
MCLoopbackHosts == {Name(<<"localhost">>)}

Example == Spelled("plain", "strasse", <<"example">>)

MCHosts ==
    {Spelled(spelling, "strasse", <<"example">>) :
        spelling \in {"plain", "variant", "deviation", "ace"}}
    \cup {[Example EXCEPT !.finalDot = TRUE],
          Spelled("plain", "example", <<>>),
          Spelled("plain", "v1", <<"strasse", "example">>),
          Spelled("plain", "localhost", <<>>),
          Spelled("plain", "elsewhere", <<>>)}

MCUrls ==
    {Url(scheme, host, port) : scheme \in {"http", "https", "ftp"},
                               host \in MCHosts,
                               port \in {Missing, 80, 443, 8000}}
    \cup
    LET good == Url("https", Example, Missing) IN
    {[good EXCEPT !.unreadable = "all"], [good EXCEPT !.unreadable = "port"],
     [good EXCEPT !.userinfo = TRUE], [good EXCEPT !.fragment = TRUE],
     [good EXCEPT !.host = Missing], [good EXCEPT !.host.encodable = FALSE],
     [good EXCEPT !.requestable = FALSE]}

=============================================================================
