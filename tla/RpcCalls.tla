------------------------------ MODULE RpcCalls ------------------------------
(***************************************************************************)
(* The calls of ADJsonRpcClient.  Every one of them does the same: it      *)
(* prepares a request from name and value pairs, sends it, waits for the   *)
(* answer and takes the result and some named values out of it.  A call is *)
(* a record of what makes it different from the others: the kinds of the   *)
(* values it sends and of those it fetches, what an output holds when the  *)
(* answer has no value for it, and how long it waits.                      *)
(***************************************************************************)
EXTENDS Naturals, Sequences

\* The kinds of values: text, integer, 64 bit integer, double.
S(n) == [k \in 1..n |-> "text"]
I(n) == [k \in 1..n |-> "int"]
L(n) == [k \in 1..n |-> "int64"]
D(n) == [k \in 1..n |-> "double"]

\* What an output holds that the answer does not give: a text of the client,
\* or what was in the caller's memory.
Kept == "kept"

Exchange(sends, fetches, default, wait) ==
    [sends |-> sends, fetches |-> fetches, default |-> default, wait |-> wait]

Sets(sends) == Exchange(sends, <<>>, Kept, 4000)
Gets(sends, fetches) == Exchange(sends, fetches, Kept, 4000)
Measures(sends, fetches) == Exchange(sends, fetches, Kept, 8000)
-----------------------------------------------------------------------------
(* prepare_json_request(): the lists of values a request can be made of    *)

PrepareFew == {S(0), S(1), I(1), I(2), I(3), I(1) \o S(1)}
PrepareTexts == {S(2), S(1) \o I(1), S(3), S(4), S(9), S(1) \o I(3)}
PrepareMixed == {S(2) \o I(3), L(3), S(5), I(3) \o S(2), I(4), I(4) \o S(2),
                 I(2) \o S(2)}
PrepareDoubles == {I(1) \o D(1) \o S(1) \o I(1), I(7), I(1) \o D(9), D(3),
                   S(3) \o D(9), S(1) \o I(3)}
Prepared == PrepareFew \union PrepareTexts \union PrepareMixed
            \union PrepareDoubles

(* find_json_result(): the lists of values that can be taken out           *)

FindFew == {<<>>, S(1), I(1), I(4)}
FindColours == {I(3), S(3) \o D(9)}
FindDoubles == {D(3), D(9)}
FindIntegers == {I(7), I(2), I(6)}
FindSensors == {S(2) \o I(8), I(2) \o S(2)}
FindTexts == {I(4) \o S(1), I(4) \o S(2), S(2)}
FindTarget == {I(1) \o D(1) \o S(1) \o I(1) \o D(2), I(2) \o D(2)}
FindOneText == {S(1) \o I(3), S(1) \o I(1)}
FindMoreTexts == {S(5), S(4), S(3)}
Found == FindFew \union FindColours \union FindDoubles \union FindIntegers
         \union FindSensors \union FindTexts \union FindTarget
         \union FindOneText \union FindMoreTexts
-----------------------------------------------------------------------------
(* The calls                                                               *)

IntegerCalls ==
    [set_integer_type |-> Sets(I(1)),
     get_integer_type |-> Exchange(<<>>, S(1), "NotFound", 4000),
     set_integer_type_with_addr_para |-> Sets(I(2)),
     get_integer_type_with_addr_para |-> Exchange(I(1), S(1), "unknown", 4000),
     set_three_int_type |-> Sets(I(3)),
     set_three_int_get_one_int |-> Gets(I(3), I(1)),
     set_enum_type_with_addr_para |-> Sets(I(1) \o S(1)),
     get_enum_type_with_addr_para |-> Exchange(I(1), S(1), "unknown", 4000)]

StringCalls ==
    [get_string_type_with_string_para |-> Exchange(S(1), S(1), "unknown", 4000),
     get_int_type_with_string_para |-> Exchange(I(1), S(1), "unknown", 4000),
     get_string_type_with_string_para_with_addr_para |->
        Exchange(I(1) \o S(1), S(1), "unknown", 4000),
     set_double_string_type |-> Sets(S(2)),
     set_tripple_string_type |-> Sets(S(3)),
     set_four_string_type |-> Sets(S(4)),
     set_three_string_type |-> Sets(S(3)),
     set_tripple_string_get_single_string_type |-> Gets(S(3), S(1))]

MixedCalls ==
    [set_single_string_triple_int_type |-> Sets(S(1) \o I(3)),
     set_single_string_single_int_type |-> Sets(S(1) \o I(1)),
     set_double_string_triple_int_type |-> Sets(S(2) \o I(3)),
     set_four_int_type |-> Sets(I(4)),
     get_four_int_type |-> Gets(<<>>, I(4)),
     get_five_string_type_status_error_info |-> Measures(<<>>, S(5)),
     set_four_int_two_string_type |-> Sets(I(4) \o S(2)),
     set_single_string_with_string_para |-> Sets(S(2)),
     set_single_string_with_five_string_para |-> Sets(S(5))]

ParameterCalls ==
    [set_single_string_with_nine_string_para |-> Sets(S(9)),
     get_four_int_one_string_with_string_para |-> Gets(S(1), I(4) \o S(1)),
     get_four_int_two_string_with_string_para |-> Gets(S(1), I(4) \o S(2)),
     get_single_string_with_string_para |-> Gets(S(1), S(1)),
     get_two_string_with_string_para |-> Gets(<<>>, S(2)),
     get_three_string_with_string_para |-> Gets(<<>>, S(3)),
     get_two_int_three_double_one_string_type |->
        Gets(<<>>, I(1) \o D(1) \o S(1) \o I(1) \o D(2)),
     get_two_int_two_float_one_string_with_string_para |->
        Gets(S(1), I(2) \o D(2))]

MeasuringCalls ==
    [get_three_int_type_with_integer_para |-> Measures(I(1), I(3)),
     get_two_string_eight_int_type_with_three_int_two_string_para |->
        Measures(I(3) \o S(2), S(2) \o I(8)),
     get_two_int_type_max_min_brightness |-> Measures(<<>>, I(2)),
     get_six_int_type |-> Measures(<<>>, I(6)),
     get_seven_int_type_native_params |-> Measures(<<>>, I(7)),
     get_three_double_type |-> Measures(<<>>, D(3)),
     get_three_double_type_with_string_para |-> Measures(S(1), D(3))]

CalibrationCalls ==
    [get_nine_double_type |-> Measures(<<>>, D(9)),
     get_three_string_nine_double_type |-> Measures(<<>>, S(3) \o D(9)),
     set_three_string_nine_double_type |-> Measures(S(3) \o D(9), <<>>),
     set_seven_int_type |-> Measures(I(7), <<>>),
     set_single_int_nine_double_type |-> Measures(I(1) \o D(9), <<>>),
     set_two_int_two_string_type |-> Sets(I(2) \o S(2)),
     set_three_double_type |-> Sets(D(3))]

SensorCalls ==
    [set_two_int_one_double_one_string_type |->
        Sets(I(1) \o D(1) \o S(1) \o I(1)),
     get_two_int_two_string_type |-> Gets(<<>>, I(2) \o S(2)),
     get_two_string_eight_int_type_with_integer_para |->
        Exchange(I(1), S(2) \o I(8), Kept, 80000),
     get_three_string_with_one_string_para |-> Gets(S(1), S(3)),
     get_three_string_type |-> Gets(<<>>, S(3)),
     get_four_string_type |-> Gets(<<>>, S(4)),
     set_one_string_three_int_type |-> Sets(S(1) \o I(3)),
     get_one_string_three_int_type |-> Gets(<<>>, S(1) \o I(3)),
     get_one_string_one_int_type |-> Gets(<<>>, S(1) \o I(1))]

SingleCalls ==
    [set_double_string_get_single_string_type |-> Gets(S(2), S(1)),
     set_single_string_type |-> Sets(S(1)),
     set_single_string_get_single_string_type |-> Gets(S(1), S(1)),
     set_single_string_get_single_string_type_with_addr_para |->
        Gets(I(1) \o S(1), S(1)),
     set_action_noarg_type |-> Sets(<<>>),
     set_action_noarg_get_single_string_type |-> Gets(<<>>, S(1)),
     get_string_type |-> Exchange(<<>>, S(1), "NotFound", 4000)]

\* get_three_ulong_type() reads three texts and converts them, or sets zeros.
LongCalls ==
    [set_three_ulong_type |-> Sets(L(3)),
     get_three_ulong_type |-> Exchange(<<>>, S(3), "0", 4000),
     get_six_int_one_string_with_string_para |-> Gets(S(1), I(6))]

Families ==
    <<IntegerCalls, StringCalls, MixedCalls, ParameterCalls, MeasuringCalls,
      CalibrationCalls, SensorCalls, SingleCalls, LongCalls>>
CallNamed(name) ==
    LET family == CHOOSE f \in DOMAIN Families : name \in DOMAIN Families[f]
    IN  Families[family][name]

\* Every call finds a prepare_json_request() and a find_json_result() that
\* take what it sends and fetches.
ASSUME CallsFit ==
    \A f \in DOMAIN Families : \A name \in DOMAIN Families[f] :
        /\ Families[f][name].sends \in Prepared
        /\ Families[f][name].fetches \in Found
-----------------------------------------------------------------------------
(* What a call makes of an answer [result, values], values a function of   *)
(* the names it carries.                                                   *)

\* find_json_result_X(): the values are taken in order, up to the first that
\* is not there.
Taken(answer, names) ==
    {k \in DOMAIN names : \A j \in 1..k : names[j] \in DOMAIN answer.values}

\* copy_out(): what was not taken is the call's default.
Outputs(call, answer, names) ==
    [k \in DOMAIN names |->
        IF k \in Taken(answer, names) THEN answer.values[names[k]]
                                      ELSE call.default]
=============================================================================
