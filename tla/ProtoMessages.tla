---------------------------- MODULE ProtoMessages ----------------------------
(***************************************************************************)
(* The protobuf messages of x/tokenfactory/types and of                    *)
(* x/lumiwaveprotocol/types, as the generated *.pb.go files read and write *)
(* them.  The loop around the switch of an Unmarshal function and the      *)
(* backwards writes of a MarshalToSizedBuffer are the same code in every   *)
(* file (ProtoUnmarshal, ProtoMarshal); what a message adds of its own is  *)
(* the switch and the list of writes:                                      *)
(*                                                                         *)
(*   XUnmarshal  the cases of the switch in X.Unmarshal; case n is the nth *)
(*               element, every other field number is skipped              *)
(*   XMarshal    the writes of X.MarshalToSizedBuffer in the order of the  *)
(*               code, last field first: the tag byte and the field        *)
(***************************************************************************)
EXTENDS Integers, Sequences

Field(name, kind, of) == [ name |-> name, kind |-> kind, of |-> of ]
String(name) == Field(name, "string", "")
Strings(name) == Field(name, "strings", "")            \* repeated
Uint64(name) == Field(name, "uint64", "")
Uint32(name) == Field(name, "uint32", "")
Message(name, type) == Field(name, "message", type)    \* not nullable
Messages(name, type) == Field(name, "messages", type)  \* repeated
IntText(name) == Field(name, "int", "")  \* cosmossdk.io/math.Int, as decimal text

Numbers == {"uint64", "uint32"}  \* kinds that are one varint

Put(tag, name) == [ tag |-> tag, name |-> name ]

NoFields == <<>>

\* x/tokenfactory/types/authorityMetadata.pb.go

DenomAuthorityMetadataUnmarshal == <<String("Admin")>>
DenomAuthorityMetadataMarshal == <<Put(10, "Admin")>>

\* x/tokenfactory/types/params.pb.go

ParamsUnmarshal ==
  <<Messages("DenomCreationFee", "Coin"), Uint64("DenomCreationGasConsume")>>
ParamsMarshal ==
  <<Put(16, "DenomCreationGasConsume"), Put(10, "DenomCreationFee")>>

\* x/tokenfactory/types/genesis.pb.go

GenesisStateUnmarshal ==
  <<Message("Params", "Params"), Messages("FactoryDenoms", "GenesisDenom")>>
GenesisStateMarshal == <<Put(18, "FactoryDenoms"), Put(10, "Params")>>

GenesisDenomUnmarshal ==
  <<String("Denom"), Message("AuthorityMetadata", "DenomAuthorityMetadata")>>
GenesisDenomMarshal == <<Put(18, "AuthorityMetadata"), Put(10, "Denom")>>

\* x/tokenfactory/types/tx.pb.go

MsgCreateDenomUnmarshal == <<String("Sender"), String("Subdenom")>>
MsgCreateDenomMarshal == <<Put(18, "Subdenom"), Put(10, "Sender")>>

MsgCreateDenomResponseUnmarshal == <<String("NewTokenDenom")>>
MsgCreateDenomResponseMarshal == <<Put(10, "NewTokenDenom")>>

MsgMintUnmarshal ==
  <<String("Sender"), Message("Amount", "Coin"), String("MintToAddress")>>
MsgMintMarshal ==
  <<Put(26, "MintToAddress"), Put(18, "Amount"), Put(10, "Sender")>>

MsgMintResponseUnmarshal == NoFields
MsgMintResponseMarshal == NoFields

MsgBurnUnmarshal ==
  <<String("Sender"), Message("Amount", "Coin"), String("BurnFromAddress")>>
MsgBurnMarshal ==
  <<Put(26, "BurnFromAddress"), Put(18, "Amount"), Put(10, "Sender")>>

MsgBurnResponseUnmarshal == NoFields
MsgBurnResponseMarshal == NoFields

MsgChangeAdminUnmarshal ==
  <<String("Sender"), String("Denom"), String("NewAdmin")>>
MsgChangeAdminMarshal ==
  <<Put(26, "NewAdmin"), Put(18, "Denom"), Put(10, "Sender")>>

MsgChangeAdminResponseUnmarshal == NoFields
MsgChangeAdminResponseMarshal == NoFields

MsgSetBeforeSendHookUnmarshal ==
  <<String("Sender"), String("Denom"), String("CosmwasmAddress")>>
MsgSetBeforeSendHookMarshal ==
  <<Put(26, "CosmwasmAddress"), Put(18, "Denom"), Put(10, "Sender")>>

MsgSetBeforeSendHookResponseUnmarshal == NoFields
MsgSetBeforeSendHookResponseMarshal == NoFields

MsgSetDenomMetadataUnmarshal ==
  <<String("Sender"), Message("Metadata", "Metadata")>>
MsgSetDenomMetadataMarshal == <<Put(18, "Metadata"), Put(10, "Sender")>>

MsgSetDenomMetadataResponseUnmarshal == NoFields
MsgSetDenomMetadataResponseMarshal == NoFields

MsgForceTransferUnmarshal ==
  <<String("Sender"), Message("Amount", "Coin"),
    String("TransferFromAddress"), String("TransferToAddress")>>

\* variant: the two addresses carry each other's tags
MsgForceTransferMarshalSwapped ==
  <<Put(34, "TransferFromAddress"), Put(26, "TransferToAddress"),
    Put(18, "Amount"), Put(10, "Sender")>>

MsgForceTransferMarshal ==
  <<Put(34, "TransferToAddress"), Put(26, "TransferFromAddress"),
    Put(18, "Amount"), Put(10, "Sender")>>

MsgForceTransferResponseUnmarshal == NoFields
MsgForceTransferResponseMarshal == NoFields

\* x/tokenfactory/types/query.pb.go

QueryParamsRequestUnmarshal == NoFields
QueryParamsRequestMarshal == NoFields

QueryParamsResponseUnmarshal == <<Message("Params", "Params")>>
QueryParamsResponseMarshal == <<Put(10, "Params")>>

QueryDenomAuthorityMetadataRequestUnmarshal == <<String("Denom")>>
QueryDenomAuthorityMetadataRequestMarshal == <<Put(10, "Denom")>>

QueryDenomAuthorityMetadataResponseUnmarshal ==
  <<Message("AuthorityMetadata", "DenomAuthorityMetadata")>>
QueryDenomAuthorityMetadataResponseMarshal == <<Put(10, "AuthorityMetadata")>>

QueryDenomsFromCreatorRequestUnmarshal == <<String("Creator")>>
QueryDenomsFromCreatorRequestMarshal == <<Put(10, "Creator")>>

QueryDenomsFromCreatorResponseUnmarshal == <<Strings("Denoms")>>
QueryDenomsFromCreatorResponseMarshal == <<Put(10, "Denoms")>>

QueryBeforeSendHookAddressRequestUnmarshal == <<String("Denom")>>
QueryBeforeSendHookAddressRequestMarshal == <<Put(10, "Denom")>>

QueryBeforeSendHookAddressResponseUnmarshal == <<String("CosmwasmAddress")>>
QueryBeforeSendHookAddressResponseMarshal == <<Put(10, "CosmwasmAddress")>>

QueryAllBeforeSendHooksAddressesRequestUnmarshal == NoFields
QueryAllBeforeSendHooksAddressesRequestMarshal == NoFields

QueryAllBeforeSendHooksAddressesResponseUnmarshal ==
  <<Strings("Denoms"), Strings("BeforeSendHookAddresses")>>
QueryAllBeforeSendHooksAddressesResponseMarshal ==
  <<Put(18, "BeforeSendHookAddresses"), Put(10, "Denoms")>>

\* x/lumiwaveprotocol/types/params.pb.go

LumiwaveParamsUnmarshal == NoFields
LumiwaveParamsMarshal == NoFields

\* x/lumiwaveprotocol/types/genesis.pb.go

LumiwaveGenesisStateUnmarshal == <<Message("Params", "LumiwaveParams")>>
LumiwaveGenesisStateMarshal == <<Put(10, "Params")>>

\* x/lumiwaveprotocol/types/tx.pb.go

MsgUpdateParamsUnmarshal ==
  <<String("Authority"), Message("Params", "LumiwaveParams")>>
MsgUpdateParamsMarshal == <<Put(18, "Params"), Put(10, "Authority")>>

MsgUpdateParamsResponseUnmarshal == NoFields
MsgUpdateParamsResponseMarshal == NoFields

\* x/lumiwaveprotocol/types/query.pb.go

LumiwaveQueryParamsRequestUnmarshal == NoFields
LumiwaveQueryParamsRequestMarshal == NoFields

LumiwaveQueryParamsResponseUnmarshal ==
  <<Message("Params", "LumiwaveParams")>>
LumiwaveQueryParamsResponseMarshal == <<Put(10, "Params")>>

\* x/lumiwaveprotocol/types/module.pb.go

LumiwaveModuleUnmarshal == <<String("Authority")>>
LumiwaveModuleMarshal == <<Put(10, "Authority")>>

\* Messages of the SDK that these messages embed.

CoinUnmarshal == <<String("Denom"), IntText("Amount")>>
CoinMarshal == <<Put(18, "Amount"), Put(10, "Denom")>>

DenomUnitUnmarshal ==
  <<String("Denom"), Uint32("Exponent"), Strings("Aliases")>>
DenomUnitMarshal ==
  <<Put(26, "Aliases"), Put(16, "Exponent"), Put(10, "Denom")>>

MetadataUnmarshal ==
  <<String("Description"), Messages("DenomUnits", "DenomUnit"),
    String("Base"), String("Display"), String("Name"), String("Symbol"),
    String("URI"), String("URIHash")>>
MetadataMarshal ==
  <<Put(66, "URIHash"), Put(58, "URI"), Put(50, "Symbol"), Put(42, "Name"),
    Put(34, "Display"), Put(26, "Base"), Put(18, "DenomUnits"), Put(10, "Description")>>

\* The two tables the codec works from.
Unmarshal ==
  [ DenomAuthorityMetadata |-> DenomAuthorityMetadataUnmarshal,
    Params |-> ParamsUnmarshal,
    GenesisState |-> GenesisStateUnmarshal,
    GenesisDenom |-> GenesisDenomUnmarshal,
    MsgCreateDenom |-> MsgCreateDenomUnmarshal,
    MsgCreateDenomResponse |-> MsgCreateDenomResponseUnmarshal,
    MsgMint |-> MsgMintUnmarshal,
    MsgMintResponse |-> MsgMintResponseUnmarshal,
    MsgBurn |-> MsgBurnUnmarshal,
    MsgBurnResponse |-> MsgBurnResponseUnmarshal,
    MsgChangeAdmin |-> MsgChangeAdminUnmarshal,
    MsgChangeAdminResponse |-> MsgChangeAdminResponseUnmarshal,
    MsgSetBeforeSendHook |-> MsgSetBeforeSendHookUnmarshal,
    MsgSetBeforeSendHookResponse |-> MsgSetBeforeSendHookResponseUnmarshal,
    MsgSetDenomMetadata |-> MsgSetDenomMetadataUnmarshal,
    MsgSetDenomMetadataResponse |-> MsgSetDenomMetadataResponseUnmarshal,
    MsgForceTransfer |-> MsgForceTransferUnmarshal,
    MsgForceTransferResponse |-> MsgForceTransferResponseUnmarshal,
    QueryParamsRequest |-> QueryParamsRequestUnmarshal,
    QueryParamsResponse |-> QueryParamsResponseUnmarshal,
    QueryDenomAuthorityMetadataRequest |-> QueryDenomAuthorityMetadataRequestUnmarshal,
    QueryDenomAuthorityMetadataResponse |-> QueryDenomAuthorityMetadataResponseUnmarshal,
    QueryDenomsFromCreatorRequest |-> QueryDenomsFromCreatorRequestUnmarshal,
    QueryDenomsFromCreatorResponse |-> QueryDenomsFromCreatorResponseUnmarshal,
    QueryBeforeSendHookAddressRequest |-> QueryBeforeSendHookAddressRequestUnmarshal,
    QueryBeforeSendHookAddressResponse |-> QueryBeforeSendHookAddressResponseUnmarshal,
    QueryAllBeforeSendHooksAddressesRequest |-> QueryAllBeforeSendHooksAddressesRequestUnmarshal,
    QueryAllBeforeSendHooksAddressesResponse |-> QueryAllBeforeSendHooksAddressesResponseUnmarshal,
    LumiwaveParams |-> LumiwaveParamsUnmarshal,
    LumiwaveGenesisState |-> LumiwaveGenesisStateUnmarshal,
    MsgUpdateParams |-> MsgUpdateParamsUnmarshal,
    MsgUpdateParamsResponse |-> MsgUpdateParamsResponseUnmarshal,
    LumiwaveQueryParamsRequest |-> LumiwaveQueryParamsRequestUnmarshal,
    LumiwaveQueryParamsResponse |-> LumiwaveQueryParamsResponseUnmarshal,
    LumiwaveModule |-> LumiwaveModuleUnmarshal,
    Coin |-> CoinUnmarshal,
    DenomUnit |-> DenomUnitUnmarshal,
    Metadata |-> MetadataUnmarshal ]

Marshal ==
  [ DenomAuthorityMetadata |-> DenomAuthorityMetadataMarshal,
    Params |-> ParamsMarshal,
    GenesisState |-> GenesisStateMarshal,
    GenesisDenom |-> GenesisDenomMarshal,
    MsgCreateDenom |-> MsgCreateDenomMarshal,
    MsgCreateDenomResponse |-> MsgCreateDenomResponseMarshal,
    MsgMint |-> MsgMintMarshal,
    MsgMintResponse |-> MsgMintResponseMarshal,
    MsgBurn |-> MsgBurnMarshal,
    MsgBurnResponse |-> MsgBurnResponseMarshal,
    MsgChangeAdmin |-> MsgChangeAdminMarshal,
    MsgChangeAdminResponse |-> MsgChangeAdminResponseMarshal,
    MsgSetBeforeSendHook |-> MsgSetBeforeSendHookMarshal,
    MsgSetBeforeSendHookResponse |-> MsgSetBeforeSendHookResponseMarshal,
    MsgSetDenomMetadata |-> MsgSetDenomMetadataMarshal,
    MsgSetDenomMetadataResponse |-> MsgSetDenomMetadataResponseMarshal,
    MsgForceTransfer |-> MsgForceTransferMarshal,
    MsgForceTransferResponse |-> MsgForceTransferResponseMarshal,
    QueryParamsRequest |-> QueryParamsRequestMarshal,
    QueryParamsResponse |-> QueryParamsResponseMarshal,
    QueryDenomAuthorityMetadataRequest |-> QueryDenomAuthorityMetadataRequestMarshal,
    QueryDenomAuthorityMetadataResponse |-> QueryDenomAuthorityMetadataResponseMarshal,
    QueryDenomsFromCreatorRequest |-> QueryDenomsFromCreatorRequestMarshal,
    QueryDenomsFromCreatorResponse |-> QueryDenomsFromCreatorResponseMarshal,
    QueryBeforeSendHookAddressRequest |-> QueryBeforeSendHookAddressRequestMarshal,
    QueryBeforeSendHookAddressResponse |-> QueryBeforeSendHookAddressResponseMarshal,
    QueryAllBeforeSendHooksAddressesRequest |-> QueryAllBeforeSendHooksAddressesRequestMarshal,
    QueryAllBeforeSendHooksAddressesResponse |-> QueryAllBeforeSendHooksAddressesResponseMarshal,
    LumiwaveParams |-> LumiwaveParamsMarshal,
    LumiwaveGenesisState |-> LumiwaveGenesisStateMarshal,
    MsgUpdateParams |-> MsgUpdateParamsMarshal,
    MsgUpdateParamsResponse |-> MsgUpdateParamsResponseMarshal,
    LumiwaveQueryParamsRequest |-> LumiwaveQueryParamsRequestMarshal,
    LumiwaveQueryParamsResponse |-> LumiwaveQueryParamsResponseMarshal,
    LumiwaveModule |-> LumiwaveModuleMarshal,
    Coin |-> CoinMarshal,
    DenomUnit |-> DenomUnitMarshal,
    Metadata |-> MetadataMarshal ]

Types == DOMAIN Unmarshal

\* Names of a message's fields.
FieldNames(type) == { Unmarshal[type][n].name : n \in DOMAIN Unmarshal[type] }

\* The field of a message with a name.
FieldOf(type, name) ==
  Unmarshal[type][CHOOSE n \in DOMAIN Unmarshal[type] :
                    Unmarshal[type][n].name = name]

\* The zero value of a message, which X{} is.
Zero[type \in Types] ==
  [ name \in FieldNames(type) |->
      LET f == FieldOf(type, name) IN
      CASE f.kind \in Numbers -> 0
        [] f.kind = "int" -> <<48>>
        [] f.kind = "message" -> Zero[f.of]
        [] OTHER -> <<>> ]
=============================================================================
