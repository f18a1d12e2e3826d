---------------------------- MODULE ExampleTypes ----------------------------
(***************************************************************************)
(* tool/encodegen/example: the types for which encodegen has generated     *)
(* code, as that code treats them, field by field.  An alias is the type   *)
(* it names; the element of an embedded field is the field.                *)
(***************************************************************************)
EXTENDS Codec

GoInt == Prim("int")
GoString == Prim("string")

TestStruct    == StructOf(<<GoInt, GoString, PointerTo(GoInt), SliceOf(GoString), MapOf(GoString, GoInt)>>)
TestStructKey == StructOf(<<GoInt, GoString>>)
\* example/other has methods with pointer receivers, example/other/unpointer has not.
OtherTestStruct == External(StructOf(TestStruct.fields \o <<TimeType>>), TRUE)
OtherStrAlias   == External(GoString, FALSE)

FixedLength ==
  StructOf(<<Prim("int8"), Prim("int16"), Prim("int32"), Prim("int64"), GoInt,
             Prim("uint8"), Prim("uint16"), Prim("uint32"), Prim("uint64"), Prim("uint"),
             Prim("float32"), Prim("float64"), Prim("byte"), Prim("rune"), Prim("bool"), TimeType>>)

String == StructOf(<<GoString, SliceOf(Prim("byte")), SliceOf(Prim("rune"))>>)

Pointer == StructOf(<<PointerTo(GoInt), PointerTo(GoString), PointerTo(TestStruct), PointerTo(PointerTo(GoInt))>>)

Map ==
  StructOf(<<MapOf(GoString, GoInt), MapOf(GoString, MapOf(GoInt, GoString)), PointerTo(MapOf(GoString, GoInt)),
             MapOf(TestStructKey, TestStruct), MapOf(TestStructKey, PointerTo(TestStruct))>>)

Slice ==
  StructOf(<<SliceOf(GoString), SliceOf(SliceOf(GoInt)), SliceOf(PointerTo(GoInt)), PointerTo(SliceOf(GoString)),
             SliceOf(TestStruct), SliceOf(PointerTo(TestStruct)),
             ArrayOf(5, Prim("uint8")), ArrayOf(5, PointerTo(GoString))>>)

MapSlice == StructOf(<<MapOf(GoString, SliceOf(GoInt)), SliceOf(MapOf(GoInt, GoString))>>)

PointerMap == StructOf(<<MapOf(PointerTo(GoString), PointerTo(GoInt))>>)

FixedLengths == StructOf(<<MapOf(GoInt, Prim("uint")), ArrayOf(5, Prim("uint8")), SliceOf(GoInt)>>)

\* The embedded fields and the structs without a name.
Unnamed ==
  StructOf(<<GoInt, PointerTo(Prim("uint")), TestStruct, PointerTo(TestStructKey), TimeType, StructOf(<<GoInt, GoString>>),
             SliceOf(StructOf(<<GoInt, GoString, SliceOf(PointerTo(StructOf(<<GoInt, GoString>>)))>>))>>)

StrAlias == GoString

IntAlias == GoInt

StrsAlias == SliceOf(GoString)

PintsAlias == SliceOf(PointerTo(GoInt))

IntsAlias == SliceOf(IntAlias)

TestStructAlias == TestStruct

TestStructs == SliceOf(TestStruct)

PtestStructs == SliceOf(PointerTo(TestStruct))

StrTestStruct == MapOf(GoString, TestStruct)

StrTestStructAlias == MapOf(StrAlias, PointerTo(TestStructAlias))

Alias == StructOf(<<StrAlias, IntAlias, TestStructAlias, TestStructs, StrTestStruct>>)

OtherPackage == StructOf(<<GoInt, GoString, PointerTo(OtherTestStruct), SliceOf(OtherTestStruct), OtherStrAlias>>)

Examples ==
  {FixedLength, String, Pointer, Map, Slice, MapSlice, PointerMap, FixedLengths, Unnamed, StrAlias, IntAlias,
   StrsAlias, PintsAlias, IntsAlias, TestStructAlias, TestStructs, PtestStructs, StrTestStruct,
   StrTestStructAlias, Alias, OtherPackage}

\* The methods of package example have pointer receivers; package unpointer has the
\* same types, with values for receivers.
Methods(pointer) == {[type |-> t, pointer |-> pointer] : t \in Examples}
=============================================================================
